---------------------------- MODULE Spec2Model ----------------------------
(***************************************************************************)
(* A model of the coverage-and-attribution engine of kohlerdigital/dataton *)
(*                                                                         *)
(*   src/src/data_processing/station_coverage.py   coverage calculator     *)
(*   src/src/data_processing/age_groups.py         population apportioner  *)
(*   src/src/alt.py, src/src/combined.py           zone key normalization  *)
(*   src/src/data_processing/data_loader.py        affected-areas cache    *)
(*                                                                         *)
(* Conventions of the model.                                               *)
(*  - A Python string is a sequence of one-character strings, so that      *)
(*    strip, split, int() and str() are computed and not assumed.          *)
(*  - The map is one-dimensional: a polygon is a closed interval [lo, hi]  *)
(*    of a line, its area is hi - lo, and the geodesic buffer of radius r  *)
(*    around c is [c - |r|, c + |r|].  Closed intervals keep what matters  *)
(*    of planar geometry here: an intersection is never larger than either *)
(*    operand, and two shapes that only touch intersect with area 0.       *)
(*  - Floating-point percentages are fixed-point: a percentage is an       *)
(*    integer number of percent, within_radius is held in hundredths.      *)
(*  - Every function of the program is an operator of the same name; an    *)
(*    action stores the inputs' result in the state.                       *)
(***************************************************************************)
EXTENDS Integers, Sequences, FiniteSets

VARIABLES
    \* ---- zone key normalization (alt.py, combined.py)
    label,            \* the smsv_label handed to extract_zone_code
    zone_code,        \* what extract_zone_code returned for it
    map_out,          \* outcome of create_population_map / create_combined_map
    \* ---- coverage (station_coverage.py)
    small_areas,      \* the list of area entries of the call
    station_coords,   \* the station point of the call
    radius_meters,    \* the radius of the call
    covered_areas,    \* outcome of calculate_station_coverage
    buffer_polygon,   \* outcome of create_geodesic_buffer
    \* ---- apportionment (age_groups.py)
    population_csv,   \* data/processed/habitants/habitant_2024.csv
    age_result,       \* outcome of calculate_age_group_percentages
    \* ---- data access (data_loader.py)
    affected_areas_cache,   \* DataLoader._affected_areas_cache: its keys, in
                            \* the insertion order a dict keeps
    areas_returned,         \* what the last get_areas_within_radius returned
    cached_areas,           \* DataLoader._affected_areas_cache: the frame
                            \* stored under each key
    loader_population_data, \* DataLoader._population_data
    loader_small_areas,     \* DataLoader._small_areas
    loader_schools_data,    \* DataLoader._schools_data
    small_areas_json,       \* data/smasvaedi_2021.json
    schools_csv,            \* data/raw/geo/schools.csv
    loader_call,            \* the last call of the DataLoader
    \* ---- concurrent station queries (main.py, handle_click)
    click_threads,    \* per request thread: its position in
                      \* get_areas_within_radius and its local variables
    displayed,        \* the threads that have answered, in order, and the
                      \* areas of the answer that arrived last
    \* ---- position
    pc

vars == <<label, zone_code, map_out, small_areas, station_coords,
          radius_meters, covered_areas, population_csv, age_result,
          affected_areas_cache, areas_returned, cached_areas,
          loader_population_data, loader_small_areas, loader_schools_data,
          small_areas_json, schools_csv, loader_call, click_threads,
          displayed, buffer_polygon, pc>>

cache_vars == <<affected_areas_cache, areas_returned>>
buffer_vars == <<buffer_polygon>>
thread_vars == <<click_threads, displayed>>
loader_vars == <<cached_areas, loader_population_data, loader_small_areas,
                 loader_schools_data, small_areas_json, schools_csv,
                 loader_call>>

(***************************************************************************)
(* Bounds of the model.                                                    *)
(***************************************************************************)
MaxLabelLen == 4    \* longest label handed to the normalizer
MaxAreas    == 2    \* longest small-area list
MaxRadius   == 2    \* largest radius
MaxRows     == 2    \* most rows of the population table
MaxPoints   == 152  \* stations a session clicks

(***************************************************************************)
(* Python values.                                                          *)
(***************************************************************************)
NoneVal   == [t |-> "none", s |-> <<>>]
StrVal(s) == [t |-> "str", s |-> s]

\* The characters labels are written in: digits, the '-' delimiter, white
\* space, a letter, and the two non-digit characters int() accepts.
Alphabet == {"0", "7", "-", " ", "a", "+", "_"}

DigitChars == <<"0", "1", "2", "3", "4", "5", "6", "7", "8", "9">>
Digit      == {DigitChars[i] : i \in 1..Len(DigitChars)}
DigitVal(c) == (CHOOSE i \in 1..Len(DigitChars) : DigitChars[i] = c) - 1

IsSpace(c) == c = " "

RECURSIVE lstrip(_)
lstrip(s) == IF s # <<>> /\ IsSpace(Head(s)) THEN lstrip(Tail(s)) ELSE s

RECURSIVE rstrip(_)
rstrip(s) ==
    IF s # <<>> /\ IsSpace(s[Len(s)]) THEN rstrip(SubSeq(s, 1, Len(s) - 1)) ELSE s

\* str.strip()
strip(s) == rstrip(lstrip(s))

\* s.split('-')[-1]: what follows the last '-', the whole string without one
split_last(s) ==
    LET dashes == {i \in 1..Len(s) : s[i] = "-"}
        last   == IF dashes = {} THEN 0
                  ELSE CHOOSE i \in dashes : \A j \in dashes : j <= i
    IN  SubSeq(s, last + 1, Len(s))

\* The text int() accepts: white space around, an optional sign, then digits
\* with single underscores between digits.
IntBody(t) ==
    LET u == strip(t)
    IN  IF u # <<>> /\ u[1] \in {"+", "-"} THEN Tail(u) ELSE u

IntParses(t) ==
    LET b == IntBody(t)
    IN  /\ b # <<>>
        /\ \A i \in 1..Len(b) :
              \/ b[i] \in Digit
              \/ /\ b[i] = "_"
                 /\ 1 < i /\ i < Len(b)
                 /\ b[i - 1] \in Digit /\ b[i + 1] \in Digit

RECURSIVE DigitsValue(_, _)
DigitsValue(b, acc) ==
    IF b = <<>> THEN acc
    ELSE IF Head(b) = "_" THEN DigitsValue(Tail(b), acc)
    ELSE DigitsValue(Tail(b), acc * 10 + DigitVal(Head(b)))

\* int(t), for a text int() accepts
IntValue(t) ==
    LET u == strip(t)
        n == DigitsValue(IntBody(t), 0)
    IN  IF u[1] = "-" THEN 0 - n ELSE n

RECURSIVE NatToStr(_)
NatToStr(n) ==
    IF n < 10 THEN <<DigitChars[n + 1]>>
    ELSE NatToStr(n \div 10) \o <<DigitChars[(n % 10) + 1]>>

\* str(n) of an integer
IntToStr(n) == IF n < 0 THEN <<"-">> \o NatToStr(0 - n) ELSE NatToStr(n)

\* str.zfill(width)
RECURSIVE zfill(_, _)
zfill(s, width) == IF Len(s) >= width THEN s ELSE zfill(<<"0">> \o s, width)

(***************************************************************************)
(* alt.py: extract_zone_code.  label.strip() raises for a label that is no *)
(* string and int() raises for a token it cannot parse; the bare except    *)
(* turns both into None.                                                   *)
(***************************************************************************)
\* the expression both copies of the normalization evaluate:
\* label.strip().split('-')[-1].strip()
zone_token(s) == strip(split_last(strip(s)))

\* a slip: the token is returned as it stands, its leading zeros kept
extract_zone_code_unparsed(lbl) ==
    IF lbl.t # "str" THEN NoneVal
    ELSE IF ~IntParses(zone_token(lbl.s)) THEN NoneVal
    ELSE StrVal(zone_token(lbl.s))

\* a slip: the code is converted through float, as pandas does for a column
\* with missing values
extract_zone_code_float(lbl) ==
    IF lbl.t # "str" THEN NoneVal
    ELSE IF ~IntParses(zone_token(lbl.s)) THEN NoneVal
    ELSE StrVal(IntToStr(IntValue(zone_token(lbl.s))) \o <<".", "0">>)

extract_zone_code(lbl) ==
    IF lbl.t # "str" THEN NoneVal
    ELSE IF ~IntParses(zone_token(lbl.s)) THEN NoneVal
    ELSE StrVal(IntToStr(IntValue(zone_token(lbl.s))))

(***************************************************************************)
(* The two map builders that derive zone codes from labels.  Both group    *)
(* the population table by zone (smasvaedi, as a string), derive one       *)
(* zone_code per feature from its smsv_label, left-merge the features with *)
(* the table, and raise when no feature found a population.                *)
(***************************************************************************)
\* zone_population after astype(str): zone -> summed fjoldi
zone_population ==
    { [smasvaedi |-> <<"7">>, fjoldi |-> 40],
      [smasvaedi |-> <<"7", "0">>, fjoldi |-> 30] }

\* gdf.merge(zone_population, how='left', left_on='zone_code',
\* right_on='smasvaedi') for one feature: a None key matches no zone
merge_left(code) ==
    LET hit == {z \in zone_population : code.t = "str" /\ z.smasvaedi = code.s}
    IN  IF hit = {} THEN [zone_code |-> code, notna |-> FALSE, fjoldi |-> 0]
        ELSE [zone_code |-> code, notna |-> TRUE,
              fjoldi |-> (CHOOSE z \in hit : TRUE).fjoldi]

NoMap == [fn |-> "none", status |-> "none", rows |-> <<>>]

\* the outcome of a map builder together with the labels it was given
with_labels(out, labels) ==
    [fn |-> out.fn, labels |-> labels, status |-> out.status, rows |-> out.rows]

merged_map(fn, codes) ==
    LET rows == [i \in 1..Len(codes) |-> merge_left(codes[i])]
    IN  IF \A i \in 1..Len(rows) : ~rows[i].notna
        THEN [fn |-> fn, status |-> "raised", rows |-> <<>>]
        ELSE [fn |-> fn, status |-> "ok", rows |-> rows]

\* alt.py: gdf['zone_code'] = gdf['smsv_label'].apply(extract_zone_code)
create_population_map(labels) ==
    merged_map("create_population_map",
               [i \in 1..Len(labels) |-> extract_zone_code(labels[i])])

\* combined.py: the normalization is written inline, without the try/except:
\* a label it cannot parse raises out of apply(), and the function's own
\* except clause re-raises
create_combined_map(labels) ==
    IF \E i \in 1..Len(labels) :
          labels[i].t # "str" \/ ~IntParses(zone_token(labels[i].s))
    THEN [fn |-> "create_combined_map", status |-> "raised", rows |-> <<>>]
    ELSE merged_map("create_combined_map",
                    [i \in 1..Len(labels) |->
                        StrVal(IntToStr(IntValue(zone_token(labels[i].s))))])

(***************************************************************************)
(* station_coverage.py.                                                    *)
(*                                                                         *)
(* A coordinate list is abstracted to what shapely makes of it:            *)
(*   "empty"   no coordinates: falsy, the entry is passed over             *)
(*   "short"   too few coordinates for a ring: Polygon() raises            *)
(*   "ring"    a valid simple ring over [lo, hi]                           *)
(*   "spike"   an invalid ring that make_valid repairs to one Polygon      *)
(*   "bowtie"  a self-intersecting ring: make_valid yields a MultiPolygon  *)
(*   "flat"    a ring that encloses nothing (its points on one line):      *)
(*             invalid, and make_valid yields the line, a LineString       *)
(* An outcome of a call is [status |-> "ok" | "raise", ...].               *)
(***************************************************************************)
Abs(n) == IF n < 0 THEN 0 - n ELSE n
Min(a, b) == IF a <= b THEN a ELSE b
Max(a, b) == IF a >= b THEN a ELSE b

\* What the GEOS build makes of a polygon whose 64 vertices coincide (the
\* buffer of radius 0, an invalid geometry): nothing at all, or its point.
GeosBuilds == {"collapsed_is_empty", "collapsed_is_point"}

\* pyproj refuses a projection centred on a latitude outside [-90, 90]
ValidLatitude(lat) == 0 - 90 <= lat /\ lat <= 90

\* create_geodesic_buffer: no check of its arguments; the circle of radius r
\* is the set of points r*(cos t, sin t), the same set for r and -r
create_geodesic_buffer(center, radius) ==
    IF ~ValidLatitude(center.lat)
    THEN [status |-> "raise", lo |-> 0, hi |-> 0]
    ELSE [status |-> "ok",
          lo |-> center.lon - Abs(radius),
          hi |-> center.lon + Abs(radius)]

CirclePoints == 64     \* np.linspace(0, 2*np.pi, 64)

\* Angles are counted in units of which Turn make 2*pi, so that every angle
\* of np.linspace(0, 2*np.pi, 64) is a whole number of units.
Turn == 2 * (CirclePoints - 1)

\* a slip: the sweep stops half way
linspace_half(start, stop, num) ==
    [k \in 1..num |-> start + ((k - 1) * (stop - start)) \div (2 * (num - 1))]

\* np.linspace(start, stop, num): num values, both ends included
linspace(start, stop, num) ==
    [k \in 1..num |-> start + ((k - 1) * (stop - start)) \div (num - 1)]

\* (radius*cos(angle), radius*sin(angle)) in polar form about the centre:
\* cos and sin have period 2*pi, a negative radius is the opposite
\* direction, and radius 0 is the centre whatever the angle
circle_point(radius, angle) ==
    IF radius = 0 THEN [dir |-> 0, dist |-> 0]
    ELSE IF radius > 0 THEN [dir |-> angle % Turn, dist |-> radius]
    ELSE [dir |-> (angle + Turn \div 2) % Turn, dist |-> 0 - radius]

\* lines 29-33; the inverse of the azimuthal equidistant projection keeps
\* direction and distance from the centre
buffer_points(radius) ==
    LET angles == linspace(0, Turn, CirclePoints)
    IN  [k \in 1..CirclePoints |-> circle_point(radius, angles[k])]

\* the exterior ring of Polygon(points): the first point is repeated at the
\* end unless it is there already
exterior_ring(points) ==
    IF points[1] = points[Len(points)] THEN points
    ELSE Append(points, points[1])

NoBuffer == [status |-> "none", lo |-> 0, hi |-> 0, ring |-> <<>>]

\* create_geodesic_buffer with the ring of the polygon it returns
geodesic_buffer_polygon(center, radius) ==
    LET buffer == create_geodesic_buffer(center, radius)
    IN  [status |-> buffer.status, lo |-> buffer.lo, hi |-> buffer.hi,
         ring |-> IF buffer.status = "ok"
                  THEN exterior_ring(buffer_points(radius)) ELSE <<>>]

\* Polygon(coordinates)
Polygon(coordinates) ==
    IF coordinates.kind = "short"
    THEN [status |-> "raise", geom_type |-> "none", is_valid |-> FALSE,
          lo |-> 0, hi |-> 0]
    ELSE [status |-> "ok", geom_type |-> "Polygon",
          is_valid |-> coordinates.kind = "ring", kind |-> coordinates.kind,
          lo |-> coordinates.lo, hi |-> coordinates.hi]

\* shapely.validation.make_valid
make_valid(geom) ==
    [geom EXCEPT !.is_valid = TRUE,
                 !.geom_type = IF geom.kind = "bowtie" THEN "MultiPolygon"
                               ELSE IF geom.kind = "flat" THEN "LineString"
                               ELSE "Polygon"]

\* a slip: the intersects() test is left out, every area is measured
intersects_always(geom, buffer, geos) == TRUE

\* geom.intersects(buffer): closed shapes, so touching counts
intersects(geom, buffer, geos) ==
    IF buffer.lo = buffer.hi /\ geos = "collapsed_is_empty" THEN FALSE
    ELSE Max(geom.lo, buffer.lo) <= Min(geom.hi, buffer.hi)

\* transform_geometry: only a Polygon is projected
transform_geometry(geom) ==
    IF geom.geom_type = "Polygon" THEN [status |-> "ok"] ELSE [status |-> "raise"]

area(geom) == geom.hi - geom.lo
intersection_area(geom1, geom2) ==
    Max(0, Min(geom1.hi, geom2.hi) - Max(geom1.lo, geom2.lo))

\* a slip: the buffer's area is taken for the area of the intersection
calculate_area_coverage_buffer_area(geom1, geom2, center_lat) ==
    IF transform_geometry(geom1).status = "raise"
    THEN [status |-> "raise", intersection_area |-> 0, total_area |-> 0]
    ELSE [status |-> "ok",
          intersection_area |-> area(geom2),
          total_area |-> area(geom1)]

\* calculate_area_coverage: (intersection area, total area of geom1) in the
\* local equal-area projection, which keeps the ratio of areas
calculate_area_coverage(geom1, geom2, center_lat) ==
    IF transform_geometry(geom1).status = "raise"
    THEN [status |-> "raise", intersection_area |-> 0, total_area |-> 0]
    ELSE [status |-> "ok",
          intersection_area |-> intersection_area(geom1, geom2),
          total_area |-> area(geom1)]

\* str(area) of a bare coordinate list
coords_text(coordinates) ==
    <<"[", coordinates.kind, ":">> \o IntToStr(coordinates.lo) \o <<",">>
        \o IntToStr(coordinates.hi) \o <<"]">>

\* a slip: the id is looked up under a key the entries do not have, so
\* area.get() gives None for every dict
result_id_missing_key(entry) ==
    IF entry.shape = "dict" THEN <<"None">> ELSE coords_text(entry.geometry)

\* area.get("id") if isinstance(area, dict) else str(area)
result_id(entry) ==
    IF entry.shape = "dict" THEN entry.id ELSE coords_text(entry.geometry)

\* (intersection_area / total_area) * 100 if total_area > 0 else 0
coverage_percent(cov) ==
    IF cov.total_area > 0 THEN (cov.intersection_area * 100) \div cov.total_area
    ELSE 0

NoItem == [id |-> <<>>, area_coverage_percent |-> 0]

\* The try block of the loop body for one entry (lines 117-151):
\*   "continue"  nothing is appended
\*   "append"    item is appended
\*   "raise"     an exception reaches the loop's except clause
area_try(entry, buffer, center_lat, geos) ==
    IF entry.shape = "str" THEN [outcome |-> "continue", item |-> NoItem]
    ELSE IF entry.geometry.kind = "empty"
    THEN [outcome |-> "continue", item |-> NoItem]
    ELSE LET made == Polygon(entry.geometry) IN
    IF made.status = "raise" THEN [outcome |-> "raise", item |-> NoItem]
    ELSE LET area_geom == IF made.is_valid THEN made ELSE make_valid(made) IN
    IF ~intersects(area_geom, buffer, geos)
    THEN [outcome |-> "continue", item |-> NoItem]
    ELSE LET cov == calculate_area_coverage(area_geom, buffer, center_lat) IN
    IF cov.status = "raise" THEN [outcome |-> "raise", item |-> NoItem]
    ELSE [outcome |-> "append",
          item |-> [id |-> result_id(entry),
                    area_coverage_percent |-> coverage_percent(cov)]]

\* The loop's except clause (lines 153-155) formats its message with
\*   area if isinstance(area, str) else area.get('id', 'unknown')
\* which itself raises AttributeError for an entry that is a bare list.
except_clause(entry) ==
    IF entry.shape = "list" THEN "raise" ELSE "continue"

\* One pass of the loop body: the try block, then the except clause.
\*   "abort": the exception left the loop
area_step(entry, buffer, center_lat, geos) ==
    LET t == area_try(entry, buffer, center_lat, geos)
    IN  IF t.outcome # "raise" THEN t
        ELSE IF except_clause(entry) = "raise"
        THEN [outcome |-> "abort", item |-> NoItem]
        ELSE [outcome |-> "continue", item |-> NoItem]

\* a slip: a result is put in front of the list (insert(0, ...)) instead
\* of appended
RECURSIVE coverage_loop_prepend(_, _, _, _, _)
coverage_loop_prepend(areas, covered, buffer, center_lat, geos) ==
    IF areas = <<>> THEN [status |-> "ok", covered |-> covered]
    ELSE LET st == area_step(Head(areas), buffer, center_lat, geos) IN
         IF st.outcome = "abort" THEN [status |-> "raise", covered |-> covered]
         ELSE coverage_loop_prepend(
                 Tail(areas),
                 IF st.outcome = "append" THEN <<st.item>> \o covered ELSE covered,
                 buffer, center_lat, geos)

\* for area in small_areas: ... (lines 115-157)
RECURSIVE coverage_loop(_, _, _, _, _)
coverage_loop(areas, covered, buffer, center_lat, geos) ==
    IF areas = <<>> THEN [status |-> "ok", covered |-> covered]
    ELSE LET st == area_step(Head(areas), buffer, center_lat, geos) IN
         IF st.outcome = "abort" THEN [status |-> "raise", covered |-> covered]
         ELSE coverage_loop(
                 Tail(areas),
                 IF st.outcome = "append" THEN Append(covered, st.item) ELSE covered,
                 buffer, center_lat, geos)

\* a slip: only a pair of numbers is taken for a point, a longer sequence
\* is refused like any other value
station_point_pairs_only(coords) ==
    IF coords.form = "pair"
    THEN [status |-> "ok", lon |-> coords.lon, lat |-> coords.lat]
    ELSE [status |-> "raise", lon |-> 0, lat |-> 0]

\* station_point (lines 100-110).  The forms of station_coords:
\*   "pair"        a list or tuple of two numbers: Point(station_coords)
\*   "points"      more than two elements, the first a (lon, lat) pair:
\*                 Point(station_coords[0])
\*   "triple"      more than two elements, the first a number, as in
\*                 (lon, lat, z): Point(station_coords[0]) raises
\*   "pair_other"  two elements that are not both numbers: ValueError
\*   "single", "empty"   fewer than two elements: ValueError
\*   "scalar"      no list or tuple: ValueError
\* lon and lat are those of the pair, or of the first element of "points".
station_point(coords) ==
    IF coords.form \in {"pair", "points"}
    THEN [status |-> "ok", lon |-> coords.lon, lat |-> coords.lat]
    ELSE [status |-> "raise", lon |-> 0, lat |-> 0]

\* The body of the outer try (lines 99-157).
coverage_try(areas, coords, radius, geos) ==
    LET point == station_point(coords)
        station_buffer == create_geodesic_buffer(point, radius)
    IN  IF point.status = "raise" \/ station_buffer.status = "raise"
        THEN [status |-> "raise", covered |-> <<>>]
        ELSE coverage_loop(areas, <<>>, station_buffer, point.lat, geos)

\* a slip: the outer except clause re-raises, as create_combined_map's does
calculate_station_coverage_reraise(areas, coords, radius, geos) ==
    LET body == coverage_try(areas, coords, radius, geos)
    IN  IF body.status = "raise"
        THEN [status |-> "raised", fallback |-> FALSE, value |-> <<>>]
        ELSE [status |-> "returned", fallback |-> FALSE, value |-> body.covered]

\* calculate_station_coverage: whatever is raised inside is caught by the
\* outer except clause, which returns [].  fallback records that the clause
\* ran (it prints "Error in calculate_station_coverage").
calculate_station_coverage(areas, coords, radius, geos) ==
    LET body == coverage_try(areas, coords, radius, geos)
    IN  IF body.status = "raise"
        THEN [status |-> "returned", fallback |-> TRUE, value |-> <<>>]
        ELSE [status |-> "returned", fallback |-> FALSE, value |-> body.covered]

NoCall == [status |-> "none", fallback |-> FALSE, value |-> <<>>]

(***************************************************************************)
(* age_groups.py.                                                          *)
(*                                                                         *)
(* The population file is [exists, rows]; a row is one line of the CSV,    *)
(* [smasvaedi (the cell's text), aldursflokkur, fjoldi].  within_radius is *)
(* held in hundredths: 5500 stands for 55.0.                               *)
(***************************************************************************)
target_age_groups == <<"10-14 ára", "15-19 ára", "20-24 ára">>

IsDigits(cell) == cell # <<>> /\ \A i \in 1..Len(cell) : cell[i] \in Digit

\* pd.read_csv(...)['smasvaedi'].astype(str): a column of numbers is read as
\* integers, which lose their leading zeros; any other column stays text
smasvaedi_astype_str(rows) ==
    LET numeric == \A i \in 1..Len(rows) : IsDigits(rows[i].smasvaedi)
    IN  [i \in 1..Len(rows) |->
            IF numeric THEN IntToStr(DigitsValue(rows[i].smasvaedi, 0))
            ELSE rows[i].smasvaedi]

\* df[mask]['fjoldi'].sum() over the rows whose index is in mask
RECURSIVE fjoldi_sum(_, _)
fjoldi_sum(rows, mask) ==
    IF mask = {} THEN 0
    ELSE LET i == CHOOSE j \in mask : TRUE
         IN  rows[i].fjoldi + fjoldi_sum(rows, mask \ {i})

\* population_df[population_df['aldursflokkur'] == age_group]['fjoldi'].sum()
cohort_total(rows, age_group) ==
    fjoldi_sum(rows, {i \in 1..Len(rows) : rows[i].aldursflokkur = age_group})

\* a slip: the total is taken over the covered zones only
cohort_total_of(rows, zones, covered, age_group) ==
    fjoldi_sum(rows, {i \in 1..Len(rows) :
                        /\ rows[i].aldursflokkur = age_group
                        /\ \E k \in 1..Len(covered) : zones[i] = covered[k].id})

\* population_df[population_df['smasvaedi'].astype(str) == str(area_id)]
area_pop(zones, area_id) == {i \in 1..Len(zones) : zones[i] = area_id}

\* a slip: the age group filter is left out, the area's whole population
\* is taken
age_pop_all_ages(rows, zones, area_id, age_group) ==
    fjoldi_sum(rows, area_pop(zones, area_id))

\* area_pop[area_pop['aldursflokkur'] == age_group]['fjoldi'].sum()
age_pop(rows, zones, area_id, age_group) ==
    fjoldi_sum(rows, {i \in area_pop(zones, area_id) :
                        rows[i].aldursflokkur = age_group})

\* a slip: within_radius is assigned (=) instead of accumulated (+=), so
\* the last covered area wins
RECURSIVE within_radius_loop_assign(_, _, _, _, _)
within_radius_loop_assign(covered, rows, zones, age_group, acc) ==
    IF covered = <<>> THEN acc
    ELSE within_radius_loop_assign(
            Tail(covered), rows, zones, age_group,
            age_pop(rows, zones, Head(covered).id, age_group)
                * Head(covered).area_coverage_percent)

\* for area in covered_areas: result[age_group]['within_radius'] +=
\*     age_pop * coverage_percent, for one age group
RECURSIVE within_radius_loop(_, _, _, _, _)
within_radius_loop(covered, rows, zones, age_group, acc) ==
    IF covered = <<>> THEN acc
    ELSE within_radius_loop(
            Tail(covered), rows, zones, age_group,
            acc + age_pop(rows, zones, Head(covered).id, age_group)
                    * Head(covered).area_coverage_percent)

AgeGroups == {target_age_groups[i] : i \in 1..Len(target_age_groups)}

AgeFallback == [status |-> "fallback", stats |-> <<>>]
NoAgeCall   == [status |-> "none", stats |-> <<>>]

\* a slip: the coverage percentage is not applied
age_stats_unweighted(covered, rows) ==
    LET zones == smasvaedi_astype_str(rows)
        whole == [k \in 1..Len(covered) |->
                    [covered[k] EXCEPT !.area_coverage_percent = 100]]
    IN  [g \in AgeGroups |->
            [total |-> cohort_total(rows, g),
             within_radius |-> within_radius_loop(whole, rows, zones, g, 0)]]

\* a slip: the total is taken over the covered zones only
age_stats_covered_total(covered, rows) ==
    LET zones == smasvaedi_astype_str(rows)
    IN  [g \in AgeGroups |->
            [total |-> cohort_total_of(rows, zones, covered, g),
             within_radius |-> within_radius_loop(covered, rows, zones, g, 0)]]

\* the result dictionary: total and within_radius of every target age group
age_stats(covered, rows) ==
    LET zones == smasvaedi_astype_str(rows)
    IN  [g \in AgeGroups |->
            [total |-> cohort_total(rows, g),
             within_radius |-> within_radius_loop(covered, rows, zones, g, 0)]]

\* a slip: the zone's rows are looked up with .loc, which raises KeyError
\* for a zone the table does not hold; the except clause returns {}
calculate_age_group_percentages_loc(coords, radius, areas, csv, geos) ==
    LET covered == calculate_station_coverage(areas, coords, radius, geos).value
        zones   == smasvaedi_astype_str(csv.rows)
    IN  IF ~csv.exists THEN AgeFallback
        ELSE IF \E k \in 1..Len(covered) : area_pop(zones, covered[k].id) = {}
        THEN AgeFallback
        ELSE [status |-> "ok", stats |-> age_stats(covered, csv.rows)]

\* calculate_age_group_percentages: read_csv raises for a missing file and
\* the except clause returns {}
calculate_age_group_percentages(coords, radius, areas, csv, geos) ==
    LET covered == calculate_station_coverage(areas, coords, radius, geos).value
    IN  IF ~csv.exists THEN AgeFallback
        ELSE [status |-> "ok", stats |-> age_stats(covered, csv.rows)]

(***************************************************************************)
(* data_loader.py, DataLoader.get_areas_within_radius and its cache.       *)
(*                                                                         *)
(* A point is a station's number, NoPoint a station without geometry.  A   *)
(* cache key is the pair (point, radius) that the key's text is made of.   *)
(* The dict is the sequence of its keys in insertion order: a new key goes *)
(* to the end, list(keys())[:n] are the first n.                           *)
(***************************************************************************)
CacheLimit    == 100   \* len(self._affected_areas_cache) > 100
OldestCount   == 50    \* list(self._affected_areas_cache.keys())[:50]
DefaultRadius == 400   \* radius or 400

NoPoint == 0

\* _get_cache_key: f"{point.wkt}_{radius}"; None has no wkt
get_cache_key(point, radius) ==
    IF point = NoPoint THEN [status |-> "raise", key |-> <<>>]
    ELSE [status |-> "ok", key |-> <<point, radius>>]

\* cache_key in self._affected_areas_cache
InCache(cache, key) == \E i \in 1..Len(cache) : cache[i] = key

(***************************************************************************)
(* data_loader.py, the cached datasets.                                    *)
(*                                                                         *)
(* A file is [exists, columns, rows]: `columns` tells whether the columns  *)
(* the loader reads are there.  A frame is [stage, rows]: the stage is the *)
(* last statement of the loader that worked on it, "none" stands for None  *)
(* and "empty" for the empty frame an except clause returns.               *)
(***************************************************************************)
MetersPerDegree == 111000   \* radius / 111000

NoFrame    == [stage |-> "none", rows |-> <<>>]
EmptyFrame == [stage |-> "empty", rows |-> <<>>]

NoAreas == [kind |-> "none", key |-> <<>>, areas |-> NoFrame]

\* load_population_data: the field after the call and what is returned
load_population_data(population_data, file, force) ==
    IF ~force /\ population_data # NoFrame
    THEN [field |-> population_data, returned |-> population_data]
    ELSE IF ~file.exists
    THEN [field |-> population_data, returned |-> EmptyFrame]
    ELSE LET read == [stage |-> "read_csv", rows |-> file.rows]
         IN  IF ~file.columns
             THEN [field |-> read, returned |-> EmptyFrame]
             ELSE LET keys == smasvaedi_astype_str(file.rows)
                      frame == [stage |-> "astype",
                                rows |-> [i \in 1..Len(file.rows) |->
                                    [file.rows[i] EXCEPT !.smasvaedi = keys[i]]]]
                  IN  [field |-> frame, returned |-> frame]

\* load_small_areas; smsv is text in the file, which astype(str) keeps
load_small_areas(small_areas_field, file, force) ==
    IF ~force /\ small_areas_field # NoFrame
    THEN [field |-> small_areas_field, returned |-> small_areas_field]
    ELSE IF ~file.exists
    THEN [field |-> small_areas_field, returned |-> EmptyFrame]
    ELSE LET reprojected == [stage |-> "to_crs", rows |-> file.rows]
         IN  IF ~file.columns
             THEN [field |-> reprojected, returned |-> EmptyFrame]
             ELSE LET frame == [stage |-> "set_index", rows |-> file.rows]
                  IN  [field |-> frame, returned |-> frame]

\* load_schools_data: the GeoDataFrame is built before it is assigned
load_schools_data(schools_data, file, force) ==
    IF ~force /\ schools_data # NoFrame
    THEN [field |-> schools_data, returned |-> schools_data]
    ELSE IF ~file.exists \/ ~file.columns
    THEN [field |-> schools_data, returned |-> EmptyFrame]
    ELSE LET frame == [stage |-> "geodataframe", rows |-> file.rows]
         IN  [field |-> frame, returned |-> frame]

\* population_data[population_data['smasvaedi'].isin(area_ids)]; a frame
\* without the column raises
isin(frame, area_ids) ==
    {i \in 1..Len(frame.rows) : frame.rows[i].smasvaedi \in area_ids}

HasSmasvaedi(frame) == frame.stage \in {"astype", "zfill", "empty"}

\* get_total_population: the number it returns
get_total_population(population_data, file, area_ids) ==
    IF area_ids = {} THEN 0
    ELSE LET frame == load_population_data(population_data, file, FALSE).returned
         IN  IF ~HasSmasvaedi(frame) THEN 0
             ELSE fjoldi_sum(frame.rows, isin(frame, area_ids))

\* get_age_distribution: the dict it returns, as the set of its items
get_age_distribution(population_data, file, area_ids) ==
    IF area_ids = {} THEN {}
    ELSE LET frame == load_population_data(population_data, file, FALSE).returned
         IN  IF ~HasSmasvaedi(frame) THEN {}
             ELSE LET rows == isin(frame, area_ids)
                      groups == {frame.rows[i].aldursflokkur : i \in rows}
                  IN  {<<g, fjoldi_sum(frame.rows,
                             {i \in rows : frame.rows[i].aldursflokkur = g})>> :
                          g \in groups}

\* point.buffer(radius / 111000) and small_areas[small_areas.intersects(...)]
intersecting_areas(small_areas_frame, point, radius) ==
    LET reach == radius \div MetersPerDegree
    IN  [stage |-> small_areas_frame.stage,
         rows |-> SelectSeq(small_areas_frame.rows,
                            LAMBDA a : a.lo <= point + reach
                                       /\ point - reach <= a.hi)]

\* self._affected_areas_cache[cache_key] = intersecting_areas
store(frames, key, value) ==
    [k \in (DOMAIN frames) \cup {key} |-> IF k = key THEN value ELSE frames[k]]

\* the frames of the keys that are left
kept(frames, cache) ==
    [k \in {cache[i] : i \in 1..Len(cache)} |-> frames[k]]

\* a slip: the size check is missing, nothing is ever removed
get_areas_within_radius_unlimited(cache, frames, field, file, point, radius, arg) ==
    LET cache_key == get_cache_key(point, radius)
    IN  IF cache_key.status = "raise"
        THEN [cache |-> cache, frames |-> frames, field |-> field,
              returned |-> [kind |-> "fallback", key |-> <<>>,
                            areas |-> EmptyFrame]]
        ELSE IF InCache(cache, cache_key.key)
        THEN [cache |-> cache, frames |-> frames, field |-> field,
              returned |-> [kind |-> "cached", key |-> cache_key.key,
                            areas |-> frames[cache_key.key]]]
        ELSE LET loaded == IF arg = NoFrame
                           THEN load_small_areas(field, file, FALSE)
                           ELSE [field |-> field, returned |-> arg]
                 found == intersecting_areas(loaded.returned, point, radius)
             IN  [cache |-> Append(cache, cache_key.key),
                  frames |-> store(frames, cache_key.key, found),
                  field |-> loaded.field,
                  returned |-> [kind |-> "computed", key |-> cache_key.key,
                                areas |-> found]]

\* a slip: a hit moves the key to the end, so that the least recently used
\* keys are removed instead of the oldest
get_areas_within_radius_lru(cache, frames, field, file, point, radius, arg) ==
    LET cache_key == get_cache_key(point, radius)
    IN  IF cache_key.status = "raise"
        THEN [cache |-> cache, frames |-> frames, field |-> field,
              returned |-> [kind |-> "fallback", key |-> <<>>,
                            areas |-> EmptyFrame]]
        ELSE IF InCache(cache, cache_key.key)
        THEN [cache |-> Append(SelectSeq(cache, LAMBDA k : k # cache_key.key),
                               cache_key.key),
              frames |-> frames, field |-> field,
              returned |-> [kind |-> "cached", key |-> cache_key.key,
                            areas |-> frames[cache_key.key]]]
        ELSE LET loaded == IF arg = NoFrame
                           THEN load_small_areas(field, file, FALSE)
                           ELSE [field |-> field, returned |-> arg]
                 found == intersecting_areas(loaded.returned, point, radius)
                 stored == Append(cache, cache_key.key)
                 left == IF Len(stored) > CacheLimit
                         THEN SubSeq(stored, OldestCount + 1, Len(stored))
                         ELSE stored
             IN  [cache |-> left,
                  frames |-> kept(store(frames, cache_key.key, found), left),
                  field |-> loaded.field,
                  returned |-> [kind |-> "computed", key |-> cache_key.key,
                                areas |-> found]]

\* get_areas_within_radius: the cache (its keys in insertion order and the
\* frame stored under each), the _small_areas field after the call and what
\* is returned:
\*   "cached"    the frame stored under the key
\*   "computed"  the intersecting areas, stored under the key
\*   "fallback"  the empty frame of the except clause
\* arg is the small_areas argument, NoFrame for None.
get_areas_within_radius(cache, frames, field, file, point, radius, arg) ==
    LET cache_key == get_cache_key(point, radius)
    IN  IF cache_key.status = "raise"
        THEN [cache |-> cache, frames |-> frames, field |-> field,
              returned |-> [kind |-> "fallback", key |-> <<>>,
                            areas |-> EmptyFrame]]
        ELSE IF InCache(cache, cache_key.key)
        THEN [cache |-> cache, frames |-> frames, field |-> field,
              returned |-> [kind |-> "cached", key |-> cache_key.key,
                            areas |-> frames[cache_key.key]]]
        ELSE LET loaded == IF arg = NoFrame
                           THEN load_small_areas(field, file, FALSE)
                           ELSE [field |-> field, returned |-> arg]
                 found == intersecting_areas(loaded.returned, point, radius)
                 stored == Append(cache, cache_key.key)
                 left == IF Len(stored) > CacheLimit
                         THEN SubSeq(stored, OldestCount + 1, Len(stored))
                         ELSE stored
             IN  [cache |-> left,
                  frames |-> kept(store(frames, cache_key.key, found), left),
                  field |-> loaded.field,
                  returned |-> [kind |-> "computed", key |-> cache_key.key,
                                areas |-> found]]

\* population_data['smasvaedi'].astype(str).str.zfill(4)
zfilled(frame) ==
    [stage |-> IF frame.stage = "empty" THEN "empty" ELSE "zfill",
     rows |-> [i \in 1..Len(frame.rows) |->
                  [frame.rows[i] EXCEPT !.smasvaedi = zfill(@, 4)]]]

\* update_map, as far as the DataLoader goes (lines 279-321): the three
\* fields after the call and whether the figure or, after an exception, the
\* base map is returned.  With an age group the rows are filtered into a
\* new frame; without one, population_data is the frame
\* load_population_data returned, which is the cached one unless it is the
\* empty frame of the except clause.
update_map(population_data, small_areas_field, schools_data, population_file, small_areas_file, schools_file, active_layers, age_group) ==
    LET areas == IF "smasvaedi" \in active_layers \/ "density" \in active_layers
                 THEN load_small_areas(small_areas_field, small_areas_file, FALSE)
                 ELSE [field |-> small_areas_field, returned |-> NoFrame]
        density == "density" \in active_layers
        loaded == load_population_data(population_data, population_file, FALSE)
        raises == density /\ ~HasSmasvaedi(loaded.returned)
        in_place == age_group = NoneVal /\ loaded.returned = loaded.field
        population_after ==
            IF ~density THEN population_data
            ELSE IF in_place /\ ~raises THEN zfilled(loaded.field)
            ELSE loaded.field
        schools == IF "schools" \in active_layers /\ ~raises
                   THEN load_schools_data(schools_data, schools_file, FALSE)
                   ELSE [field |-> schools_data, returned |-> NoFrame]
    IN  [population_data |-> population_after,
         small_areas |-> areas.field,
         schools_data |-> schools.field,
         returned |-> IF raises THEN "base_map" ELSE "figure"]

\* a slip: the memo of affected areas is left as it is
clear_caches_keeps_memo(cache) == cache

\* clear_caches, as far as this cache goes
clear_caches(cache) == <<>>

(***************************************************************************)
(* Inputs.                                                                 *)
(***************************************************************************)
SeqsUpTo(S, n) == UNION {[1..k -> S] : k \in 0..n}

\* labels: every string over Alphabet up to MaxLabelLen, and None
Labels == {StrVal(s) : s \in SeqsUpTo(Alphabet, MaxLabelLen)} \cup {NoneVal}

\* labels of the other feature of the GeoJSON file
CompanionLabels == {StrVal(<<"a", "-", "0", "7">>), StrVal(<<"a">>)}

\* zone ids, of small areas and of the population file's cells
Id42   == <<"4", "2">>
Id0042 == <<"0", "0", "4", "2">>
Id7    == <<"7">>

\* rings over the line 0..2, a wide ring around the stations and a ring
\* next to it
Rings == {<<0, 1>>, <<1, 2>>, <<0, 2>>, <<0 - 2, 2>>, <<2, 3>>}

Coordinates ==
    {[kind |-> "ring", lo |-> r[1], hi |-> r[2]] : r \in Rings}
    \cup {[kind |-> k, lo |-> 0, hi |-> 2] : k \in {"spike", "bowtie"}}
    \cup {[kind |-> k, lo |-> 0, hi |-> 0] : k \in {"short", "empty"}}
    \cup {[kind |-> "flat", lo |-> 1, hi |-> 1]}

\* an entry of small_areas: a dict {"id", "geometry"}, a bare coordinate
\* list, or a string (an area id)
AreaEntries ==
    {[shape |-> "dict", id |-> i, geometry |-> g] :
        i \in {Id42, Id0042}, g \in Coordinates}
    \cup {[shape |-> "list", id |-> <<>>, geometry |-> g] : g \in Coordinates}
    \cup {[shape |-> "str", id |-> Id7,
           geometry |-> [kind |-> "empty", lo |-> 0, hi |-> 0]]}

\* station points: on the line at the latitude of Reykjavik, and one with a
\* latitude no projection accepts
Stations ==
    {[form |-> "pair", lon |-> x, lat |-> 64] : x \in {0 - 1, 0, 1}}
    \cup {[form |-> "pair", lon |-> 0, lat |-> 91]}

Radii == (0 - 1)..MaxRadius

DefaultStation == [form |-> "pair", lon |-> 0, lat |-> 64]

\* station_coords of every form
StationForms ==
    {"pair", "points", "triple", "pair_other", "single", "empty", "scalar"}
StationInputs ==
    {[form |-> f, lon |-> x, lat |-> y] :
        f \in StationForms, x \in {0, 1}, y \in {64, 91}}

\* the areas of an apportionment: dicts with valid rings, as handle_click
\* builds them
AgeAreaEntries ==
    {[shape |-> "dict", id |-> e[1],
      geometry |-> [kind |-> "ring", lo |-> 0, hi |-> e[2]]] :
        e \in {<<Id42, 1>>, <<Id42, 2>>, <<Id0042, 1>>, <<Id7, 1>>, <<Id7, 2>>}}

\* lines of the population file: a target age group with two counts, and
\* an age group that is no target
PopulationRows ==
    {[smasvaedi |-> c[1], aldursflokkur |-> c[2], fjoldi |-> c[3]] :
        c \in {<<Id0042, "10-14 ára", 40>>, <<Id0042, "10-14 ára", 30>>,
               <<Id7, "10-14 ára", 30>>, <<Id7, "25-29 ára", 40>>}}

\* the queries of an apportionment
AgeStations == {[form |-> "pair", lon |-> x, lat |-> 64] : x \in {0, 1}}
AgeRadii    == {1, 2}

PopulationFiles ==
    {[exists |-> TRUE, rows |-> rs] : rs \in SeqsUpTo(PopulationRows, MaxRows)}
    \cup {[exists |-> FALSE, rows |-> <<>>]}

NoFile == [exists |-> FALSE, rows |-> <<>>]

\* the station clicked last for the first time (0: none yet)
NewestPoint(cache) ==
    IF cache = <<>> THEN 0
    ELSE LET points == {cache[i][1] : i \in 1..Len(cache)}
         IN  CHOOSE m \in points : \A q \in points : q <= m

\* the points handed to get_areas_within_radius: a station without
\* geometry, the next station not clicked before, the first station again,
\* and the stations of the oldest and of the newest key of the cache
ClickedPoints(cache) ==
    {NoPoint, 1}
    \cup {q \in {NewestPoint(cache) + 1} : q <= MaxPoints}
    \cup (IF cache = <<>> THEN {} ELSE {cache[1][1], cache[Len(cache)][1]})

\* the files of the DataLoader: missing, without the column the loader
\* converts, and complete; the small areas come in two editions
PopulationSources ==
    {[exists |-> FALSE, columns |-> FALSE, rows |-> <<>>],
     [exists |-> TRUE, columns |-> FALSE,
      rows |-> <<[aldursflokkur |-> "10-14 ára", fjoldi |-> 40]>>],
     [exists |-> TRUE, columns |-> TRUE,
      rows |-> <<[smasvaedi |-> Id0042, aldursflokkur |-> "10-14 ára",
                  fjoldi |-> 40],
                 [smasvaedi |-> Id7, aldursflokkur |-> "10-14 ára",
                  fjoldi |-> 30]>>]}

SmallAreas2021 ==
    [exists |-> TRUE, columns |-> TRUE,
     rows |-> <<[smsv |-> Id42, lo |-> 0, hi |-> 1]>>]

SmallAreasRevised ==
    [exists |-> TRUE, columns |-> TRUE,
     rows |-> <<[smsv |-> Id42, lo |-> 0, hi |-> 1],
                [smsv |-> Id7, lo |-> 1, hi |-> 2]>>]

SmallAreaSources ==
    {[exists |-> FALSE, columns |-> FALSE, rows |-> <<>>],
     [exists |-> TRUE, columns |-> FALSE, rows |-> <<[lo |-> 0, hi |-> 1]>>],
     SmallAreas2021, SmallAreasRevised}

Schools == [exists |-> TRUE, columns |-> TRUE, rows |-> <<[Name |-> "a"]>>]

SchoolSources ==
    {[exists |-> FALSE, columns |-> FALSE, rows |-> <<>>],
     [exists |-> TRUE, columns |-> FALSE, rows |-> <<[Name |-> "a"]>>],
     Schools}

\* the points and the small_areas arguments of get_areas_within_radius: a
\* session of clicks passes no small_areas, other callers pass a frame they
\* loaded
LoaderPoints == {NoPoint, 1, 2}
LoadedFrames ==
    {load_small_areas(NoFrame, f, FALSE).returned :
        f \in {SmallAreas2021, SmallAreasRevised}}

QueriedPoints ==
    IF pc = "data_loader" THEN ClickedPoints(affected_areas_cache)
    ELSE IF pc = "areas" THEN LoaderPoints
    ELSE {1}

PassedAreas ==
    IF pc = "areas" THEN {NoFrame} \cup LoadedFrames ELSE {NoFrame}

\* layers and age groups of update_map
LayerToggles == {{}, {"smasvaedi"}, {"density"}, {"schools"},
                 {"density", "schools"}}
AgeGroupValues == {NoneVal, StrVal(<<"1", "0", "-", "1", "4">>)}

NoAnswer == [order |-> <<>>, areas |-> NoFrame]

NoLoaderCall == [op |-> "none", args |-> <<>>, returned |-> NoFrame]

(***************************************************************************)
(* Initial states: one per component, each drawing that component's        *)
(* inputs and leaving the others at rest.                                  *)
(***************************************************************************)
\* no request is being served
ThreadsAtRest ==
    /\ click_threads = <<>>
    /\ displayed = NoAnswer

BufferAtRest == buffer_polygon = NoBuffer

\* DataLoader.__init__, with the files as they are shipped
LoaderAtRest ==
    /\ cached_areas = <<>>
    /\ loader_population_data = NoFrame
    /\ loader_small_areas = NoFrame
    /\ loader_schools_data = NoFrame
    /\ small_areas_json = SmallAreas2021
    /\ schools_csv = Schools
    /\ loader_call = NoLoaderCall

CacheAtRest ==
    /\ affected_areas_cache = <<>>
    /\ areas_returned = NoAreas

ZoneAtRest ==
    /\ label = NoneVal
    /\ zone_code = NoneVal
    /\ map_out = NoMap

CoverageAtRest ==
    /\ small_areas = <<>>
    /\ station_coords = DefaultStation
    /\ radius_meters = 1
    /\ covered_areas = NoCall

AgeAtRest ==
    /\ population_csv = NoFile
    /\ age_result = NoAgeCall

InitZone ==
    /\ CacheAtRest
    /\ BufferAtRest
    /\ ThreadsAtRest
    /\ LoaderAtRest
    /\ label \in Labels
    /\ zone_code = NoneVal
    /\ map_out = NoMap
    /\ CoverageAtRest
    /\ AgeAtRest
    /\ pc = "start"

InitCoverage ==
    /\ CacheAtRest
    /\ BufferAtRest
    /\ ThreadsAtRest
    /\ LoaderAtRest
    /\ small_areas \in SeqsUpTo(AreaEntries, MaxAreas)
    /\ station_coords \in Stations
    /\ radius_meters \in Radii
    /\ covered_areas = NoCall
    /\ ZoneAtRest
    /\ AgeAtRest
    /\ pc = "start"

InitAge ==
    /\ CacheAtRest
    /\ BufferAtRest
    /\ ThreadsAtRest
    /\ LoaderAtRest
    /\ small_areas \in SeqsUpTo(AgeAreaEntries, MaxAreas)
    /\ station_coords \in AgeStations
    /\ radius_meters \in AgeRadii
    /\ covered_areas = NoCall
    /\ population_csv \in PopulationFiles
    /\ age_result = NoAgeCall
    /\ ZoneAtRest
    /\ pc = "start"

\* the population file of an engine call: missing, or with one row
EngineFiles ==
    {NoFile,
     [exists |-> TRUE,
      rows |-> <<[smasvaedi |-> Id7, aldursflokkur |-> "10-14 ára",
                  fjoldi |-> 40]>>]}

\* the engine as a whole: either function is called on any list of entries
InitEngine ==
    /\ CacheAtRest
    /\ BufferAtRest
    /\ ThreadsAtRest
    /\ LoaderAtRest
    /\ small_areas \in SeqsUpTo(AreaEntries, MaxAreas)
    /\ station_coords \in {DefaultStation, [form |-> "pair", lon |-> 0, lat |-> 91]}
    /\ radius_meters = 1
    /\ covered_areas = NoCall
    /\ population_csv \in EngineFiles
    /\ age_result = NoAgeCall
    /\ ZoneAtRest
    /\ pc = "start"

\* the centres of a buffer
Centers ==
    {[form |-> "pair", lon |-> x, lat |-> y] :
        x \in (0 - 3)..3, y \in {0, 64, 91}}

\* a call of create_geodesic_buffer
InitBuffer ==
    /\ CacheAtRest
    /\ LoaderAtRest
    /\ ThreadsAtRest
    /\ buffer_polygon = NoBuffer
    /\ small_areas = <<>>
    /\ station_coords \in Centers
    /\ radius_meters \in Radii
    /\ covered_areas = NoCall
    /\ ZoneAtRest
    /\ AgeAtRest
    /\ pc = "start"

\* a call with station_coords of any form
InitStation ==
    /\ CacheAtRest
    /\ BufferAtRest
    /\ ThreadsAtRest
    /\ LoaderAtRest
    /\ small_areas \in SeqsUpTo(AgeAreaEntries, MaxAreas)
    /\ station_coords \in StationInputs
    /\ radius_meters \in AgeRadii
    /\ covered_areas = NoCall
    /\ ZoneAtRest
    /\ AgeAtRest
    /\ pc = "start"

\* a DataLoader whose files come and go
InitLoader ==
    /\ CacheAtRest
    /\ BufferAtRest
    /\ ThreadsAtRest
    /\ cached_areas = <<>>
    /\ loader_population_data = NoFrame
    /\ loader_small_areas = NoFrame
    /\ loader_schools_data = NoFrame
    /\ population_csv \in PopulationSources
    /\ small_areas_json \in SmallAreaSources
    /\ schools_csv \in SchoolSources
    /\ loader_call = NoLoaderCall
    /\ age_result = NoAgeCall
    /\ ZoneAtRest
    /\ CoverageAtRest
    /\ pc = "loader"

\* a DataLoader asked for the areas around a point while the small-area
\* file comes and goes
InitAreas ==
    /\ CacheAtRest
    /\ BufferAtRest
    /\ ThreadsAtRest
    /\ cached_areas = <<>>
    /\ loader_population_data = NoFrame
    /\ loader_small_areas = NoFrame
    /\ loader_schools_data = NoFrame
    /\ small_areas_json \in SmallAreaSources
    /\ schools_csv = Schools
    /\ loader_call = NoLoaderCall
    /\ AgeAtRest
    /\ ZoneAtRest
    /\ CoverageAtRest
    /\ pc = "areas"

\* the request threads of the server
Threads == {1, 2}

\* a cache one insertion short of its limit: the keys of earlier clicks on
\* other stations, each with the areas around its station
EarlierClicks ==
    [i \in 1..(CacheLimit - 1) |-> <<i + 2, DefaultRadius>>]

AreasOfClicks(cache) ==
    [k \in {cache[i] : i \in 1..Len(cache)} |->
        intersecting_areas(
            load_small_areas(NoFrame, SmallAreasRevised, TRUE).returned,
            k[1], k[2])]

\* a thread about to call get_areas_within_radius for its station
ThreadAt(point) ==
    [pc |-> "start", point |-> point, small_areas |-> NoFrame,
     intersecting_areas |-> NoFrame, oldest_keys |-> <<>>,
     returned |-> NoFrame]

\* two clicks are served at once: on a server just started, or with the
\* small areas loaded, or late in a session with a cache that is nearly full
InitClicks ==
    /\ areas_returned = NoAreas
    /\ \E session \in {"started", "loaded", "late"} :
          /\ affected_areas_cache =
                 IF session = "late" THEN EarlierClicks ELSE <<>>
          /\ cached_areas = AreasOfClicks(affected_areas_cache)
          /\ loader_small_areas =
                 IF session = "started" THEN NoFrame
                 ELSE load_small_areas(NoFrame, SmallAreasRevised,
                                       TRUE).returned
    /\ loader_population_data = NoFrame
    /\ loader_schools_data = NoFrame
    /\ small_areas_json = SmallAreasRevised
    /\ schools_csv = Schools
    /\ loader_call = NoLoaderCall
    /\ \E second \in {1, 2} :
          click_threads = [t \in Threads |->
                              ThreadAt(IF t = 1 THEN 1 ELSE second)]
    /\ displayed = NoAnswer
    /\ buffer_polygon = NoBuffer
    /\ ZoneAtRest
    /\ CoverageAtRest
    /\ AgeAtRest
    /\ pc = "clicks"

InitCache ==
    /\ CacheAtRest
    /\ BufferAtRest
    /\ ThreadsAtRest
    /\ LoaderAtRest
    /\ ZoneAtRest
    /\ CoverageAtRest
    /\ AgeAtRest
    /\ pc = "data_loader"

(***************************************************************************)
(* Actions: one call of one function on the inputs of the state.           *)
(***************************************************************************)
ExtractZoneCode ==
    /\ pc = "start"
    /\ zone_code' = extract_zone_code(label)
    /\ pc' = "extract_zone_code"
    /\ UNCHANGED <<label, map_out, small_areas, station_coords, radius_meters,
                   covered_areas, population_csv, age_result>>
    /\ UNCHANGED cache_vars
    /\ UNCHANGED buffer_vars
    /\ UNCHANGED thread_vars
    /\ UNCHANGED loader_vars

CreatePopulationMap ==
    /\ pc = "start"
    /\ \E other \in CompanionLabels :
          map_out' = with_labels(create_population_map(<<other, label>>),
                                 <<other, label>>)
    /\ pc' = "create_population_map"
    /\ UNCHANGED <<label, zone_code, small_areas, station_coords, radius_meters,
                   covered_areas, population_csv, age_result>>
    /\ UNCHANGED cache_vars
    /\ UNCHANGED buffer_vars
    /\ UNCHANGED thread_vars
    /\ UNCHANGED loader_vars

CreateCombinedMap ==
    /\ pc = "start"
    /\ \E other \in CompanionLabels :
          map_out' = with_labels(create_combined_map(<<other, label>>),
                                 <<other, label>>)
    /\ pc' = "create_combined_map"
    /\ UNCHANGED <<label, zone_code, small_areas, station_coords, radius_meters,
                   covered_areas, population_csv, age_result>>
    /\ UNCHANGED cache_vars
    /\ UNCHANGED buffer_vars
    /\ UNCHANGED thread_vars
    /\ UNCHANGED loader_vars

\* a slip: a repaired geometry is written back into the caller's entry
\* (area["geometry"] = ...) instead of kept in a local name
CalculateStationCoverage_repairs_in_place ==
    /\ pc = "start"
    /\ \E geos \in GeosBuilds :
          covered_areas' = calculate_station_coverage(
                               small_areas, station_coords, radius_meters, geos)
    /\ small_areas' =
          [i \in 1..Len(small_areas) |->
              IF small_areas[i].geometry.kind \in {"spike", "bowtie"}
              THEN [small_areas[i] EXCEPT !.geometry.kind = "ring"]
              ELSE small_areas[i]]
    /\ pc' = "calculate_station_coverage"
    /\ UNCHANGED <<label, zone_code, map_out, station_coords,
                   radius_meters, population_csv, age_result>>
    /\ UNCHANGED cache_vars
    /\ UNCHANGED buffer_vars
    /\ UNCHANGED thread_vars
    /\ UNCHANGED loader_vars

CalculateStationCoverage ==
    /\ pc = "start"
    /\ \E geos \in GeosBuilds :
          covered_areas' = calculate_station_coverage(
                               small_areas, station_coords, radius_meters, geos)
    /\ pc' = "calculate_station_coverage"
    /\ UNCHANGED <<label, zone_code, map_out, small_areas, station_coords,
                   radius_meters, population_csv, age_result>>
    /\ UNCHANGED cache_vars
    /\ UNCHANGED buffer_vars
    /\ UNCHANGED thread_vars
    /\ UNCHANGED loader_vars

CalculateAgeGroupPercentages ==
    /\ pc = "start"
    /\ \E geos \in GeosBuilds :
          /\ covered_areas' = calculate_station_coverage(
                                  small_areas, station_coords, radius_meters, geos)
          /\ age_result' = calculate_age_group_percentages(
                               station_coords, radius_meters, small_areas,
                               population_csv, geos)
    /\ pc' = "calculate_age_group_percentages"
    /\ UNCHANGED <<label, zone_code, map_out, small_areas, station_coords,
                   radius_meters, population_csv>>
    /\ UNCHANGED cache_vars
    /\ UNCHANGED buffer_vars
    /\ UNCHANGED thread_vars
    /\ UNCHANGED loader_vars

GetAreasWithinRadius ==
    /\ pc \in {"data_loader", "loader", "areas"}
    /\ \E point \in QueriedPoints, small_areas_arg \in PassedAreas :
          LET out == get_areas_within_radius(
                         affected_areas_cache, cached_areas,
                         loader_small_areas, small_areas_json,
                         point, DefaultRadius, small_areas_arg)
          IN  /\ affected_areas_cache' = out.cache
              /\ cached_areas' = out.frames
              /\ loader_small_areas' = out.field
              /\ areas_returned' = out.returned
              /\ loader_call' = [op |-> "get_areas_within_radius",
                                 args |-> <<point, DefaultRadius,
                                            small_areas_arg>>,
                                 returned |-> out.returned.areas]
    /\ UNCHANGED <<label, zone_code, map_out, small_areas, station_coords,
                   radius_meters, covered_areas, population_csv, age_result, pc>>
    /\ UNCHANGED <<loader_population_data, loader_schools_data,
                   small_areas_json, schools_csv>>
    /\ UNCHANGED buffer_vars
    /\ UNCHANGED thread_vars

\* the caches that hold something
HeldCaches ==
    {c \in {"population", "small_areas", "schools", "affected_areas"} :
        \/ c = "population" /\ loader_population_data # NoFrame
        \/ c = "small_areas" /\ loader_small_areas # NoFrame
        \/ c = "schools" /\ loader_schools_data # NoFrame
        \/ c = "affected_areas" /\ affected_areas_cache # <<>>}

ClearCaches ==
    /\ pc \in {"data_loader", "loader", "areas"}
    /\ affected_areas_cache' = clear_caches(affected_areas_cache)
    /\ cached_areas' = kept(cached_areas, affected_areas_cache')
    /\ loader_population_data' = NoFrame
    /\ loader_small_areas' = NoFrame
    /\ loader_schools_data' = NoFrame
    /\ areas_returned' = NoAreas
    /\ loader_call' = [op |-> "clear_caches", args |-> <<>>,
                       returned |-> NoFrame,
                       held |-> HeldCaches]
    /\ UNCHANGED <<label, zone_code, map_out, small_areas, station_coords,
                   radius_meters, covered_areas, population_csv, age_result, pc>>
    /\ UNCHANGED <<small_areas_json, schools_csv>>
    /\ UNCHANGED buffer_vars
    /\ UNCHANGED thread_vars

\* what the loader actions leave alone
LoaderFrame ==
    /\ UNCHANGED <<label, zone_code, map_out, small_areas, station_coords,
                   radius_meters, covered_areas, age_result, pc>>
    /\ UNCHANGED cache_vars
    /\ UNCHANGED cached_areas
    /\ UNCHANGED buffer_vars
    /\ UNCHANGED thread_vars

LoadPopulationData ==
    /\ pc = "loader"
    /\ \E force \in BOOLEAN :
          LET out == load_population_data(loader_population_data,
                                          population_csv, force)
          IN  /\ loader_population_data' = out.field
              /\ loader_call' = [op |-> "load_population_data",
                                 args |-> <<force>>, returned |-> out.returned]
    /\ UNCHANGED <<loader_small_areas, loader_schools_data, population_csv,
                   small_areas_json, schools_csv>>
    /\ LoaderFrame

LoadSmallAreas ==
    /\ pc \in {"loader", "areas"}
    /\ \E force \in BOOLEAN :
          LET out == load_small_areas(loader_small_areas, small_areas_json,
                                      force)
          IN  /\ loader_small_areas' = out.field
              /\ loader_call' = [op |-> "load_small_areas",
                                 args |-> <<force>>, returned |-> out.returned]
    /\ UNCHANGED <<loader_population_data, loader_schools_data,
                   population_csv, small_areas_json, schools_csv>>
    /\ LoaderFrame

LoadSchoolsData ==
    /\ pc = "loader"
    /\ \E force \in BOOLEAN :
          LET out == load_schools_data(loader_schools_data, schools_csv, force)
          IN  /\ loader_schools_data' = out.field
              /\ loader_call' = [op |-> "load_schools_data",
                                 args |-> <<force>>, returned |-> out.returned]
    /\ UNCHANGED <<loader_population_data, loader_small_areas,
                   population_csv, small_areas_json, schools_csv>>
    /\ LoaderFrame

UpdateMap ==
    /\ pc = "loader"
    /\ \E active_layers \in LayerToggles, age_group \in AgeGroupValues :
          LET out == update_map(loader_population_data, loader_small_areas,
                                loader_schools_data, population_csv,
                                small_areas_json, schools_csv,
                                active_layers, age_group)
          IN  /\ loader_population_data' = out.population_data
              /\ loader_small_areas' = out.small_areas
              /\ loader_schools_data' = out.schools_data
              /\ loader_call' = [op |-> "update_map", args |-> <<>>,
                                 returned |-> out.returned]
    /\ UNCHANGED <<population_csv, small_areas_json, schools_csv>>
    /\ LoaderFrame

\* a file is replaced, removed or restored between two calls
ReplaceFile ==
    /\ \/ /\ pc = "loader"
          /\ population_csv' \in PopulationSources \ {population_csv}
          /\ UNCHANGED <<small_areas_json, schools_csv>>
       \/ /\ pc \in {"loader", "areas"}
          /\ small_areas_json' \in SmallAreaSources \ {small_areas_json}
          /\ UNCHANGED <<population_csv, schools_csv>>
       \/ /\ pc = "loader"
          /\ schools_csv' \in SchoolSources \ {schools_csv}
          /\ UNCHANGED <<population_csv, small_areas_json>>
    /\ UNCHANGED <<loader_population_data, loader_small_areas,
                   loader_schools_data, loader_call>>
    /\ LoaderFrame

(***************************************************************************)
(* Two requests in get_areas_within_radius at once, as handle_click calls  *)
(* it: one action per statement of a thread, the threads taking turns      *)
(* between statements.                                                     *)
(***************************************************************************)
\* what a step of a thread leaves alone
ThreadFrame ==
    /\ UNCHANGED <<label, zone_code, map_out, small_areas, station_coords,
                   radius_meters, covered_areas, population_csv, age_result, pc>>
    /\ UNCHANGED <<areas_returned, loader_population_data,
                   loader_schools_data, small_areas_json, schools_csv,
                   loader_call>>
    /\ UNCHANGED buffer_vars

ThreadKey(t) == get_cache_key(click_threads[t].point, DefaultRadius).key

\* lines 170-172: the look-up in the cache
CheckCache(t) ==
    /\ pc = "clicks"
    /\ click_threads[t].pc = "start"
    /\ click_threads' =
           [click_threads EXCEPT ![t] =
              IF InCache(affected_areas_cache, ThreadKey(t))
              THEN [@ EXCEPT !.pc = "return",
                             !.returned = cached_areas[ThreadKey(t)]]
              ELSE [@ EXCEPT !.pc = "load_small_areas"]]
    /\ UNCHANGED <<affected_areas_cache, cached_areas, loader_small_areas,
                   displayed>>
    /\ ThreadFrame

\* load_small_areas, lines 84-85: the cached frame, if there is one
LoadSmallAreasCached(t) ==
    /\ pc = "clicks"
    /\ click_threads[t].pc = "load_small_areas"
    /\ click_threads' =
           [click_threads EXCEPT ![t] =
              IF loader_small_areas # NoFrame
              THEN [@ EXCEPT !.pc = "intersects",
                             !.small_areas = loader_small_areas]
              ELSE [@ EXCEPT !.pc = "to_crs"]]
    /\ UNCHANGED <<affected_areas_cache, cached_areas, loader_small_areas,
                   displayed>>
    /\ ThreadFrame

\* load_small_areas, lines 97-111: the file is read and the reprojected
\* frame assigned to the field
Reproject(t) ==
    /\ pc = "clicks"
    /\ click_threads[t].pc = "to_crs"
    /\ loader_small_areas' =
           [stage |-> "to_crs", rows |-> small_areas_json.rows]
    /\ click_threads' = [click_threads EXCEPT ![t].pc = "set_index"]
    /\ UNCHANGED <<affected_areas_cache, cached_areas, displayed>>
    /\ ThreadFrame

\* load_small_areas, lines 118-123 and 125-130: the frame in the field gets
\* its index; a frame that another thread has indexed meanwhile has no
\* smsv column left, and the except clause returns the empty frame
SetIndex(t) ==
    /\ pc = "clicks"
    /\ click_threads[t].pc = "set_index"
    /\ IF loader_small_areas.stage = "to_crs"
       THEN /\ loader_small_areas' =
                  [stage |-> "set_index", rows |-> loader_small_areas.rows]
            /\ click_threads' =
                  [click_threads EXCEPT ![t].pc = "intersects",
                                        ![t].small_areas = loader_small_areas']
       ELSE /\ loader_small_areas' = loader_small_areas
            /\ click_threads' =
                  [click_threads EXCEPT ![t].pc = "intersects",
                                        ![t].small_areas = EmptyFrame]
    /\ UNCHANGED <<affected_areas_cache, cached_areas, displayed>>
    /\ ThreadFrame

\* lines 178-184: the intersecting areas are computed and stored
StoreAreas(t) ==
    /\ pc = "clicks"
    /\ click_threads[t].pc = "intersects"
    /\ LET found == intersecting_areas(click_threads[t].small_areas,
                                       click_threads[t].point, DefaultRadius)
       IN  /\ affected_areas_cache' =
                  IF InCache(affected_areas_cache, ThreadKey(t))
                  THEN affected_areas_cache
                  ELSE Append(affected_areas_cache, ThreadKey(t))
           /\ cached_areas' = store(cached_areas, ThreadKey(t), found)
           /\ click_threads' =
                  [click_threads EXCEPT ![t].pc = "len",
                                        ![t].intersecting_areas = found]
    /\ UNCHANGED <<loader_small_areas, displayed>>
    /\ ThreadFrame

\* lines 187-189: the size check and the list of the oldest keys
CheckSize(t) ==
    /\ pc = "clicks"
    /\ click_threads[t].pc = "len"
    /\ click_threads' =
           [click_threads EXCEPT ![t] =
              IF Len(affected_areas_cache) > CacheLimit
              THEN [@ EXCEPT !.pc = "del",
                             !.oldest_keys =
                                 SubSeq(affected_areas_cache, 1, OldestCount)]
              ELSE [@ EXCEPT !.pc = "return",
                             !.returned =
                                 click_threads[t].intersecting_areas]]
    /\ UNCHANGED <<affected_areas_cache, cached_areas, loader_small_areas,
                   displayed>>
    /\ ThreadFrame

\* lines 190-196: one turn of the loop; del raises KeyError for a key that
\* is gone, and the except clause returns the empty frame
DeleteOldest(t) ==
    /\ pc = "clicks"
    /\ click_threads[t].pc = "del"
    /\ LET keys == click_threads[t].oldest_keys
       IN  IF keys = <<>>
           THEN /\ click_threads' =
                      [click_threads EXCEPT ![t] =
                          [@ EXCEPT !.pc = "return",
                                    !.returned =
                                 click_threads[t].intersecting_areas]]
                /\ UNCHANGED <<affected_areas_cache, cached_areas>>
           ELSE IF InCache(affected_areas_cache, Head(keys))
           THEN /\ affected_areas_cache' =
                      SelectSeq(affected_areas_cache,
                                LAMBDA k : k # Head(keys))
                /\ cached_areas' = kept(cached_areas, affected_areas_cache')
                /\ click_threads' =
                      [click_threads EXCEPT ![t].oldest_keys = Tail(keys)]
           ELSE /\ click_threads' =
                      [click_threads EXCEPT ![t] =
                          [@ EXCEPT !.pc = "return",
                                    !.returned = EmptyFrame]]
                /\ UNCHANGED <<affected_areas_cache, cached_areas>>
    /\ UNCHANGED <<loader_small_areas, displayed>>
    /\ ThreadFrame

\* handle_click returns: the answer that arrives replaces what is shown
Answer(t) ==
    /\ pc = "clicks"
    /\ click_threads[t].pc = "return"
    /\ click_threads' = [click_threads EXCEPT ![t].pc = "done"]
    /\ displayed' = [order |-> Append(displayed.order, t),
                     areas |-> click_threads[t].returned]
    /\ UNCHANGED <<affected_areas_cache, cached_areas, loader_small_areas>>
    /\ ThreadFrame

\* create_geodesic_buffer(center, radius_meters)
CreateGeodesicBuffer ==
    /\ pc = "start"
    /\ buffer_polygon' = geodesic_buffer_polygon(station_coords, radius_meters)
    /\ pc' = "create_geodesic_buffer"
    /\ UNCHANGED <<label, zone_code, map_out, small_areas, station_coords,
                   radius_meters, covered_areas, population_csv, age_result>>
    /\ UNCHANGED cache_vars
    /\ UNCHANGED loader_vars
    /\ UNCHANGED thread_vars

NextZone == ExtractZoneCode \/ CreatePopulationMap \/ CreateCombinedMap
NextCoverage == CalculateStationCoverage
NextAge == CalculateAgeGroupPercentages
NextCache == GetAreasWithinRadius \/ ClearCaches
NextBuffer == CreateGeodesicBuffer
NextClicks ==
    \/ \E t \in Threads : CheckCache(t)
    \/ \E t \in Threads : LoadSmallAreasCached(t)
    \/ \E t \in Threads : Reproject(t)
    \/ \E t \in Threads : SetIndex(t)
    \/ \E t \in Threads : StoreAreas(t)
    \/ \E t \in Threads : CheckSize(t)
    \/ \E t \in Threads : DeleteOldest(t)
    \/ \E t \in Threads : Answer(t)
NextAreas ==
    \/ GetAreasWithinRadius
    \/ LoadSmallAreas
    \/ ClearCaches
    \/ ReplaceFile
NextLoader ==
    \/ LoadPopulationData
    \/ LoadSmallAreas
    \/ LoadSchoolsData
    \/ GetAreasWithinRadius
    \/ UpdateMap
    \/ ClearCaches
    \/ ReplaceFile
NextEngine == CalculateStationCoverage \/ CalculateAgeGroupPercentages

SpecZone     == InitZone /\ [][NextZone]_vars
SpecCoverage == InitCoverage /\ [][NextCoverage]_vars
SpecAge      == InitAge /\ [][NextAge]_vars
SpecCache    == InitCache /\ [][NextCache]_vars
SpecEngine   == InitEngine /\ [][NextEngine]_vars
SpecBuffer   == InitBuffer /\ [][NextBuffer]_vars
SpecClicks   == InitClicks /\ [][NextClicks]_vars
SpecAreas    == InitAreas /\ [][NextAreas]_vars
SpecLoader   == InitLoader /\ [][NextLoader]_vars
SpecStation  == InitStation /\ [][NextCoverage]_vars

(***************************************************************************)
(* Properties.                                                             *)
(***************************************************************************)
CoverageDone == pc = "calculate_station_coverage"
AgeDone      == pc = "calculate_age_group_percentages"
ZoneDone     == pc = "extract_zone_code"

\* the sum of f over S
RECURSIVE Sum(_, _)
Sum(f, S) ==
    IF S = {} THEN 0
    ELSE LET x == CHOOSE y \in S : TRUE IN f[x] + Sum(f, S \ {x})

\* the geometry the loop hands to intersects() for an entry that has one
HasGeometry(entry) ==
    entry.shape # "str" /\ entry.geometry.kind \notin {"empty", "short"}
AreaGeom(entry) ==
    LET made == Polygon(entry.geometry)
    IN  IF made.is_valid THEN made ELSE make_valid(made)

\* C1: every area_coverage_percent that calculate_station_coverage returns
\* lies in [0, 100], and for every pair (area polygon, station buffer) that
\* calculate_area_coverage accepts, the intersection area it returns is at
\* most the total area it returns.
C1_CoverageWithinBounds ==
    CoverageDone =>
        /\ \A k \in 1..Len(covered_areas.value) :
              /\ 0 <= covered_areas.value[k].area_coverage_percent
              /\ covered_areas.value[k].area_coverage_percent <= 100
        /\ LET buffer == create_geodesic_buffer(station_coords, radius_meters)
           IN  buffer.status = "ok" =>
                 \A i \in 1..Len(small_areas) :
                    HasGeometry(small_areas[i]) =>
                       LET cov == calculate_area_coverage(
                                      AreaGeom(small_areas[i]), buffer,
                                      station_coords.lat)
                       IN  cov.status = "ok" =>
                             /\ 0 <= cov.intersection_area
                             /\ cov.intersection_area <= cov.total_area

\* a call that returned one area covered in part and one covered in full
C1_Witness ==
    /\ CoverageDone
    /\ \E k \in 1..Len(covered_areas.value) :
          covered_areas.value[k].area_coverage_percent = 50
    /\ \E k \in 1..Len(covered_areas.value) :
          covered_areas.value[k].area_coverage_percent = 100

\* the results of the entries whose own processing succeeds, in input order
RECURSIVE results_of_sound_entries(_, _, _, _)
results_of_sound_entries(areas, buffer, center_lat, geos) ==
    IF areas = <<>> THEN <<>>
    ELSE LET t == area_try(Head(areas), buffer, center_lat, geos)
         IN  (IF t.outcome = "append" THEN <<t.item>> ELSE <<>>)
                \o results_of_sound_entries(Tail(areas), buffer, center_lat, geos)

WellFormedQuery == ValidLatitude(station_coords.lat) /\ radius_meters > 0

\* C2: a failure while processing one small area skips only that area: for
\* a well-formed query and every input list of dicts, bare coordinate lists
\* and strings, calculate_station_coverage returns the results of all the
\* entries that intersect the buffer and process without error.
C2_FailureSkipsOnlyThatArea ==
    CoverageDone /\ WellFormedQuery =>
        \A geos \in GeosBuilds :
            covered_areas.value =
                results_of_sound_entries(
                    small_areas,
                    create_geodesic_buffer(station_coords, radius_meters),
                    station_coords.lat, geos)

MalformedQuery == radius_meters <= 0 \/ ~ValidLatitude(station_coords.lat)

Rows      == population_csv.rows
RowZones  == smasvaedi_astype_str(Rows)
Covered   == covered_areas.value
Apportioned == AgeDone /\ age_result.status = "ok"

\* the sum of fjoldi over the rows of zone id `zone` and age group g
ZoneCohortCount(zone, g) ==
    Sum([i \in 1..Len(Rows) |-> Rows[i].fjoldi],
        {i \in 1..Len(Rows) : RowZones[i] = zone /\ Rows[i].aldursflokkur = g})

\* C4: within_radius of each age group equals the sum, over the coverage
\* results, of (sum of fjoldi of the rows of that zone id and age group)
\* * area_coverage_percent / 100 (both sides in hundredths here).
C4_WithinRadiusIsWeightedSum ==
    Apportioned =>
        \A g \in AgeGroups :
            age_result.stats[g].within_radius =
                Sum([k \in 1..Len(Covered) |->
                        ZoneCohortCount(Covered[k].id, g)
                            * Covered[k].area_coverage_percent],
                    1..Len(Covered))

\* the scenario of the claim: two affected zones covered 100% and 50% with
\* cohort counts 40 and 30 give within_radius 55
C4_Witness ==
    /\ Apportioned
    /\ Len(Covered) = 2
    /\ Covered[1].area_coverage_percent = 100
    /\ Covered[2].area_coverage_percent = 50
    /\ ZoneCohortCount(Covered[1].id, "10-14 ára") = 40
    /\ ZoneCohortCount(Covered[2].id, "10-14 ára") = 30
    /\ age_result.stats["10-14 ára"].within_radius = 5500

\* C5: total of each age group is the sum of fjoldi over all rows of that
\* age group in the whole population table, whatever zones the query
\* touched: whenever the file is read, the call succeeds with that total.
C5_TotalIsWholeTable ==
    AgeDone /\ population_csv.exists =>
        /\ age_result.status = "ok"
        /\ \A g \in AgeGroups :
              age_result.stats[g].total =
                  Sum([i \in 1..Len(Rows) |-> Rows[i].fjoldi],
                      {i \in 1..Len(Rows) : Rows[i].aldursflokkur = g})

\* a call whose total counts a row of a zone the query did not touch
C5_Witness ==
    /\ Apportioned
    /\ age_result.stats["10-14 ára"].total = 70
    /\ \E i \in 1..Len(Rows) :
          /\ Rows[i].aldursflokkur = "10-14 ára"
          /\ \A k \in 1..Len(Covered) : Covered[k].id # RowZones[i]

\* the zones of the coverage results that have a row in the table
HasRow(zone) == \E i \in 1..Len(Rows) : RowZones[i] = zone
CoveredWithRows == SelectSeq(Covered, LAMBDA a : HasRow(a.id))

\* C6: a zone of the coverage results without a row in the population table
\* raises no error, contributes 0 to within_radius of every age group and
\* leaves the other zones' contributions as they are: the result is that of
\* the coverage results without that zone.
C6_ZoneWithoutRowsContributesNothing ==
    AgeDone /\ population_csv.exists =>
        /\ age_result.status = "ok"
        /\ \A g \in AgeGroups :
              age_result.stats[g].within_radius =
                  Sum([k \in 1..Len(CoveredWithRows) |->
                          ZoneCohortCount(CoveredWithRows[k].id, g)
                              * CoveredWithRows[k].area_coverage_percent],
                      1..Len(CoveredWithRows))

\* a call with a covered zone that has no row and one that contributes
C6_Witness ==
    /\ Apportioned
    /\ \E k \in 1..Len(Covered) : ~HasRow(Covered[k].id)
    /\ age_result.stats["10-14 ára"].within_radius > 0

\* the canonical key of a zone id: its number without leading zeros
CanonicalZone(zone) ==
    IF IsDigits(zone) THEN IntToStr(DigitsValue(zone, 0)) ELSE zone

\* the sum of fjoldi over the rows that denote zone `zone`, of age group g
SameZoneCohortCount(zone, g) ==
    Sum([i \in 1..Len(Rows) |-> Rows[i].fjoldi],
        {i \in 1..Len(Rows) :
            /\ CanonicalZone(Rows[i].smasvaedi) = CanonicalZone(zone)
            /\ Rows[i].aldursflokkur = g})

\* C7: a coverage zone id and a population zone id that denote the same zone
\* in different encodings ('0042' and '42', text and integer) are matched by
\* the apportionment join: within_radius counts the rows whose canonical
\* zone key equals that of the covered zone.
C7_JoinMatchesAcrossEncodings ==
    Apportioned =>
        \A g \in AgeGroups :
            age_result.stats[g].within_radius =
                Sum([k \in 1..Len(Covered) |->
                        SameZoneCohortCount(Covered[k].id, g)
                            * Covered[k].area_coverage_percent],
                    1..Len(Covered))

\* a text of white space only
IsBlank(s) == \A i \in 1..Len(s) : IsSpace(s[i])

\* the digits of a number without its leading zeros
RECURSIVE StripLeadingZeros(_)
StripLeadingZeros(d) ==
    IF Len(d) > 1 /\ Head(d) = "0" THEN StripLeadingZeros(Tail(d)) ELSE d

\* the digit strings d such that s is: anything up to and including a last
\* '-' (or nothing), white space, d, white space
PaddedNumbers(s) ==
    {SubSeq(s, p[1], p[2]) :
        p \in {q \in (1..Len(s)) \X (1..Len(s)) :
                 /\ q[1] <= q[2]
                 /\ IsDigits(SubSeq(s, q[1], q[2]))
                 /\ IsBlank(SubSeq(s, q[2] + 1, Len(s)))
                 /\ \E i \in 0..(q[1] - 1) :
                       /\ i > 0 => s[i] = "-"
                       /\ \A j \in (i + 1)..Len(s) : s[j] # "-"
                       /\ IsBlank(SubSeq(s, i + 1, q[1] - 1))}}

\* C8: for every label whose last '-'-delimited token is a digit string,
\* possibly with leading zeros and white space around it, extract_zone_code
\* returns that number as a decimal string without leading zeros, the same
\* key it returns for the bare digit string ('a-07' and '07' both give '7').
C8_PaddedNumberNormalizes ==
    ZoneDone /\ label.t = "str" =>
        \A d \in PaddedNumbers(label.s) :
            /\ zone_code = StrVal(StripLeadingZeros(d))
            /\ extract_zone_code(StrVal(d)) = zone_code

\* the label 'a-07' was normalized to '7'
C8_Witness ==
    /\ ZoneDone
    /\ label = StrVal(<<"a", "-", "0", "7">>)
    /\ zone_code = StrVal(<<"7">>)

\* C9: zone key normalization is idempotent: whenever extract_zone_code(x)
\* is not None, extract_zone_code(extract_zone_code(x)) = extract_zone_code(x).
C9_NormalizationIdempotent ==
    ZoneDone /\ zone_code # NoneVal =>
        extract_zone_code(zone_code) = zone_code

\* a label that is not yet canonical was normalized
C9_Witness ==
    /\ ZoneDone
    /\ zone_code # NoneVal
    /\ zone_code # label
    /\ zone_code = StrVal(<<"7", "0">>)

\* a label no zone code can be derived from
Unparsable(lbl) == lbl.t # "str" \/ ~IntParses(zone_token(lbl.s))
MapDone == pc \in {"create_population_map", "create_combined_map"}

\* C10: when the final token of a label cannot be parsed as an integer (or
\* the label is no string) the normalization returns None instead of
\* raising, and every caller that derives zone codes from labels keeps that
\* feature as unmatched and goes on: with another feature that does match,
\* the map is built and the feature's row has no population.
C10_UnparsableLabelIsUnmatched ==
    /\ ZoneDone /\ Unparsable(label) => zone_code = NoneVal
    /\ MapDone /\ Unparsable(map_out.labels[2])
              /\ merge_left(extract_zone_code(map_out.labels[1])).notna =>
          /\ map_out.status = "ok"
          /\ ~map_out.rows[2].notna

\* an entry whose polygon intersects the buffer
Intersecting(entry, buffer, geos) ==
    HasGeometry(entry) /\ intersects(AreaGeom(entry), buffer, geos)

\* an entry whose coverage is computed without an error
ProcessedWithoutError(entry, buffer, center_lat) ==
    HasGeometry(entry)
    /\ calculate_area_coverage(AreaGeom(entry), buffer, center_lat).status = "ok"

\* the entries that are to contribute, in input order
Contributors(buffer, geos) ==
    SelectSeq(small_areas,
              LAMBDA e : /\ Intersecting(e, buffer, geos)
                         /\ ProcessedWithoutError(e, buffer, station_coords.lat))

\* C11: a small area whose polygon does not intersect the station buffer
\* contributes no entry to the result of calculate_station_coverage, and
\* every area that does intersect it and is processed without error
\* contributes exactly one entry: the ids of the result are those of the
\* intersecting, soundly processed areas, one each.
C11_OneEntryPerIntersectingArea ==
    CoverageDone /\ ValidLatitude(station_coords.lat) =>
        \E geos \in GeosBuilds :
            LET buffer == create_geodesic_buffer(station_coords, radius_meters)
                due    == Contributors(buffer, geos)
            IN  [k \in 1..Len(Covered) |-> Covered[k].id]
                    = [k \in 1..Len(due) |-> result_id(due[k])]

\* the strictly increasing maps of 1..n into 1..m
Increasing(n, m) ==
    {f \in [1..n -> 1..m] : \A a, b \in 1..n : a < b => f[a] < f[b]}

\* C12: the list returned by calculate_station_coverage is a subsequence of
\* the input small areas in input iteration order: the results can be
\* assigned to the areas they came from by a strictly increasing map, so the
\* relative order of any two results is that of their areas.
C12_ResultsInInputOrder ==
    CoverageDone =>
        \E geos \in GeosBuilds :
        \E f \in Increasing(Len(Covered), Len(small_areas)) :
            \A k \in 1..Len(Covered) :
                LET t == area_try(
                             small_areas[f[k]],
                             create_geodesic_buffer(station_coords, radius_meters),
                             station_coords.lat, geos)
                IN  t.outcome = "append" /\ t.item = Covered[k]

\* a call that returned two different results, of two areas
C12_Witness ==
    /\ CoverageDone
    /\ Len(Covered) = 2
    /\ Covered[1].id # Covered[2].id
    /\ Covered[1].area_coverage_percent # Covered[2].area_coverage_percent

\* no zone id occurs twice in the returned list
UniqueResultIds ==
    \A a, b \in 1..Len(Covered) : a # b => Covered[a].id # Covered[b].id

\* the id an input entry carries: the value under "id" of a dict, the text
\* of a bare coordinate list
InputId(entry) ==
    IF entry.shape = "dict" THEN entry.id
    ELSE <<"[", entry.geometry.kind, ":">> \o IntToStr(entry.geometry.lo)
            \o <<",">> \o IntToStr(entry.geometry.hi) \o <<"]">>

\* the ids that the input entries yield are pairwise distinct
UniqueInputIds ==
    \A i, j \in 1..Len(small_areas) :
        (/\ i # j
         /\ small_areas[i].shape # "str"
         /\ small_areas[j].shape # "str")
            => InputId(small_areas[i]) # InputId(small_areas[j])

\* C13 as claimed: in every result set returned by
\* calculate_station_coverage no zone id occurs twice, for every accepted
\* input list of small areas.
C13_ResultIdsUnique ==
    CoverageDone => UniqueResultIds

\* C13 as amended: no zone id occurs twice in the result set when the ids
\* that the input entries yield (the "id" of a dict, str(area) of a bare
\* coordinate list) are pairwise distinct; the function does not deduplicate.
C13_ResultIdsUniqueForUniqueInput ==
    CoverageDone /\ UniqueInputIds => UniqueResultIds

\* a dict entry and a bare coordinate list both gave a result
C13_Witness ==
    /\ CoverageDone
    /\ UniqueInputIds
    /\ Len(Covered) = 2
    /\ \E i, j \in 1..Len(small_areas) :
          small_areas[i].shape = "dict" /\ small_areas[j].shape = "list"

\* the permutations of 1..n, and a sequence rearranged by one
Permutations(n) ==
    {p \in [1..n -> 1..n] : \A a, b \in 1..n : a # b => p[a] # p[b]}
Permuted(seq, p) == [k \in 1..Len(seq) |-> seq[p[k]]]

\* C14: the result of apportionment does not depend on the order of the
\* coverage results: for any permutation of the same coverage list (and of
\* the small areas it is computed from) and the same population table,
\* calculate_age_group_percentages returns the same total and within_radius
\* for every age group.  Sums are exact in this arithmetic.
C14_ApportionmentOrderIndependent ==
    Apportioned =>
        /\ \A p \in Permutations(Len(Covered)) :
              age_stats(Permuted(Covered, p), Rows) = age_result.stats
        /\ \A p \in Permutations(Len(small_areas)) :
              \E geos \in GeosBuilds :
                 calculate_age_group_percentages(
                     station_coords, radius_meters, Permuted(small_areas, p),
                     population_csv, geos) = age_result

\* two covered zones with different, positive contributions to one age group
C14_Witness ==
    /\ Apportioned
    /\ Len(Covered) = 2
    /\ LET c1 == ZoneCohortCount(Covered[1].id, "10-14 ára")
                    * Covered[1].area_coverage_percent
           c2 == ZoneCohortCount(Covered[2].id, "10-14 ára")
                    * Covered[2].area_coverage_percent
       IN  c1 > 0 /\ c2 > 0 /\ c1 # c2
                  /\ age_result.stats["10-14 ára"].within_radius = c1 + c2

\* C15: after any sequence of get_areas_within_radius calls with arbitrary
\* (point, radius) keys, the affected-areas cache holds at most 100 entries
\* whenever a call has returned.
C15_CacheAtMostHundred ==
    Len(affected_areas_cache) <= 100

\* a call has just filled the cache to its limit
C15_Witness ==
    /\ areas_returned.kind = "computed"
    /\ Len(affected_areas_cache) = 100
    /\ affected_areas_cache[100] = areas_returned.key

\* what a step that returns from get_areas_within_radius does to the cache
FifoStep ==
    LET old == affected_areas_cache
        new == affected_areas_cache'
        ret == areas_returned'
        all == Append(old, ret.key)
        removed == {i \in 1..Len(all) : ~InCache(new, all[i])}
    IN  /\ ret.kind = "cached" => new = old
        /\ ret.kind = "computed" =>
              /\ removed = IF Len(all) > 100 THEN 1..(Len(all) \div 2) ELSE {}
              /\ new = SelectSeq(all, LAMBDA k : InCache(new, k))
              /\ new # <<>> /\ new[Len(new)] = ret.key

\* C16: cache eviction is FIFO over insertion order: when an insertion makes
\* the affected-areas cache exceed its cap, exactly the oldest-inserted half
\* of the entries is removed, every more recently inserted entry (the one
\* just inserted included) is retained in its place, and a cache hit leaves
\* the eviction order as it is.
C16_EvictionIsFifo == [][FifoStep]_vars

\* the second eviction removed the keys older than the first station's
\* second insertion and kept that one
C16_Witness ==
    /\ areas_returned.kind = "computed"
    /\ Len(affected_areas_cache) = 51
    /\ affected_areas_cache[2] = <<1, DefaultRadius>>
    /\ affected_areas_cache[1][1] > 1
    /\ affected_areas_cache[51] = areas_returned.key

\* a step in which one of the two engine functions returns
EngineReturns ==
    pc' \in {"calculate_station_coverage", "calculate_age_group_percentages"}

\* C17: the coverage and apportionment functions never mutate the
\* small-area collection or the population table they work on: after
\* calculate_station_coverage or calculate_age_group_percentages returns,
\* normally or via its error fallback, every input area entry and every
\* population row is what it was, and the result is a value of its own,
\* built by the call.
C17_InputsNotMutated ==
    [][EngineReturns =>
          /\ Len(small_areas') = Len(small_areas)
          /\ \A i \in 1..Len(small_areas) : small_areas'[i] = small_areas[i]
          /\ population_csv'.exists = population_csv.exists
          /\ Len(population_csv'.rows) = Len(population_csv.rows)
          /\ \A i \in 1..Len(population_csv.rows) :
                population_csv'.rows[i] = population_csv.rows[i]
          /\ covered_areas' # NoCall
          /\ pc' = "calculate_age_group_percentages" => age_result' # NoAgeCall]_vars

\* a call that repaired an invalid ring and reported its area, with the
\* entry as it was given
C17_Witness ==
    /\ CoverageDone
    /\ ~covered_areas.fallback
    /\ Len(Covered) = 2
    /\ \E i \in 1..Len(small_areas) : small_areas[i].geometry.kind = "spike"

\* an entry whose geometry, repaired if invalid, is no single Polygon
Unsupported(entry) ==
    HasGeometry(entry) /\ AreaGeom(entry).geom_type # "Polygon"

\* C18: a geometry that is not a single Polygon (a MultiPolygon produced by
\* repairing an invalid ring) is rejected with an unsupported-geometry error
\* by transform_geometry, and inside calculate_station_coverage that error
\* skips only that area and is not propagated: the call returns what it
\* returns for the list without the entries of unsupported geometry.
C18_UnsupportedGeometrySkipsOnlyThatArea ==
    CoverageDone /\ ValidLatitude(station_coords.lat) =>
        /\ \A i \in 1..Len(small_areas) :
              Unsupported(small_areas[i]) =>
                 transform_geometry(AreaGeom(small_areas[i])).status = "raise"
        /\ covered_areas.status = "returned"
        /\ \E geos \in GeosBuilds :
              Covered = calculate_station_coverage(
                            SelectSeq(small_areas, LAMBDA e : ~Unsupported(e)),
                            station_coords, radius_meters, geos).value

\* an entry whose zone has no area
ZeroArea(entry) == HasGeometry(entry) /\ area(AreaGeom(entry)) = 0

\* C19: if the subject area's projected total area is 0 (the zone encloses
\* nothing, and a projection keeps that) and the zone intersects the
\* buffer, calculate_station_coverage reports that zone with
\* area_coverage_percent = 0: no division by zero, and the zone is present
\* in the result.
C19_ZeroAreaZoneReported ==
    CoverageDone /\ ValidLatitude(station_coords.lat) =>
        \A i \in 1..Len(small_areas) :
            \A geos \in GeosBuilds :
                (/\ ZeroArea(small_areas[i])
                 /\ intersects(AreaGeom(small_areas[i]),
                               create_geodesic_buffer(station_coords, radius_meters),
                               geos))
                    => \E k \in 1..Len(Covered) :
                          /\ Covered[k].id = result_id(small_areas[i])
                          /\ Covered[k].area_coverage_percent = 0

\* the entries are areas with valid rings, no two of which overlap
NonOverlappingAreas ==
    /\ \A i \in 1..Len(small_areas) :
          /\ small_areas[i].shape # "str"
          /\ small_areas[i].geometry.kind = "ring"
    /\ \A i, j \in 1..Len(small_areas) :
          i # j => Min(small_areas[i].geometry.hi, small_areas[j].geometry.hi)
                      <= Max(small_areas[i].geometry.lo, small_areas[j].geometry.lo)

\* the buffer of the call, and whether it lies inside an entry's ring
\* without reaching its boundary
StationBuffer == create_geodesic_buffer(station_coords, radius_meters)
BufferInside(entry) ==
    /\ entry.geometry.lo < StationBuffer.lo
    /\ StationBuffer.hi < entry.geometry.hi

WithinRadiusBounded ==
    \A g \in AgeGroups :
        /\ 0 <= age_result.stats[g].within_radius
        /\ age_result.stats[g].within_radius <= age_result.stats[g].total * 100

\* the counts are not negative and the coverage percentages lie in [0, 100]
CountsAndCoverageInRange ==
    /\ \A i \in 1..Len(Rows) : Rows[i].fjoldi >= 0
    /\ \A k \in 1..Len(Covered) :
          /\ 0 <= Covered[k].area_coverage_percent
          /\ Covered[k].area_coverage_percent <= 100

\* C28 as claimed: for every age group in the result of
\* calculate_age_group_percentages, 0 <= within_radius <= total, given
\* non-negative counts and coverage percentages in [0, 100].
C28_WithinRadiusAtMostTotal ==
    Apportioned /\ CountsAndCoverageInRange => WithinRadiusBounded

\* C28 as amended: 0 <= within_radius <= total for every age group, given
\* non-negative counts, coverage percentages in [0, 100] and coverage
\* results in which no zone id occurs twice; a zone that occurs twice is
\* counted twice.
C28_WithinRadiusAtMostTotalForUniqueZones ==
    Apportioned /\ CountsAndCoverageInRange /\ UniqueResultIds
        => WithinRadiusBounded

\* two different zones covered, a part of the age group within the radius
C28_Witness ==
    /\ Apportioned
    /\ UniqueResultIds
    /\ Len(Covered) = 2
    /\ age_result.stats["10-14 ára"].within_radius > 0
    /\ age_result.stats["10-14 ára"].within_radius
          < age_result.stats["10-14 ára"].total * 100


\* ---- C30: station_coords of any form ----

\* the forms the claim calls unusable
UnusableForms == {"triple", "pair_other", "single", "empty", "scalar"}

\* what a call for the single point (lon, lat) returns
CoverageOfPoint(lon, lat) ==
    {calculate_station_coverage(small_areas,
                                [form |-> "pair", lon |-> lon, lat |-> lat],
                                radius_meters, geos).value : geos \in GeosBuilds}

\* the share, in percent, of the ring [lo, hi] that lies within `radius` of
\* the point at `lon`
PointShare(ring, lon, radius) ==
    ((Min(ring.hi, lon + radius) - Max(ring.lo, lon - radius)) * 100)
        \div (ring.hi - ring.lo)

\* C30: calculate_station_coverage never raises; station_coords that is no
\* list or tuple, has fewer than two elements or is otherwise unusable gives
\* the empty list; a pair of numbers is taken as the point itself, and a
\* longer sequence of points is read as its first element.
C30_StationCoordsNeverRaise ==
    CoverageDone =>
        /\ covered_areas.status = "returned"
        /\ station_coords.form \in UnusableForms => covered_areas.value = <<>>
        /\ station_coords.form \in {"pair", "points"} =>
               covered_areas.value \in
                   CoverageOfPoint(station_coords.lon, station_coords.lat)
        /\ station_coords.form \in {"pair", "points"}
           /\ ValidLatitude(station_coords.lat) =>
               /\ Len(covered_areas.value) = Len(small_areas)
               /\ \A i \in 1..Len(small_areas) :
                      /\ covered_areas.value[i].id = small_areas[i].id
                      /\ covered_areas.value[i].area_coverage_percent =
                             PointShare(small_areas[i].geometry,
                                        station_coords.lon, radius_meters)

C30_Witness ==
    /\ CoverageDone
    /\ station_coords.form = "points"
    /\ Len(small_areas) = 2
    /\ Len(covered_areas.value) = 2
    /\ covered_areas.value[2].area_coverage_percent = 50


\* ---- C22: the ring of the station buffer ----

BufferDone == pc = "create_geodesic_buffer"
BufferRing == buffer_polygon.ring

\* the vertices of the ring, the repeated closing point left out
RingVertices == Len(BufferRing) - 1

\* the edges of the ring between two distinct vertices, the closing edge
\* among them
RingEdges == {k \in 1..(Len(BufferRing) - 1) : BufferRing[k] # BufferRing[k + 1]}

\* the angle an edge subtends at the centre
Subtended(k) == (BufferRing[k + 1].dir - BufferRing[k].dir) % Turn

DistinctVertices == {BufferRing[k] : k \in 1..Len(BufferRing)}

\* C22: the polygon create_geodesic_buffer returns has at least 32 vertices,
\* every two consecutive distinct vertices subtend the same angle 2*pi/N at
\* the centre (N the number of distinct vertices), the closing edge
\* included, and the first point of the ring equals the last.
C22_BufferRingEvenAndClosed ==
    BufferDone /\ buffer_polygon.status = "ok" =>
        /\ RingVertices >= 32
        /\ BufferRing[1] = BufferRing[Len(BufferRing)]
        /\ \A k \in RingEdges :
               Subtended(k) * Cardinality(DistinctVertices) = Turn

C22_Witness ==
    /\ BufferDone
    /\ buffer_polygon.status = "ok"
    /\ radius_meters > 0
    /\ Cardinality(RingEdges) = CirclePoints - 1
    /\ Cardinality(DistinctVertices) = CirclePoints - 1


\* ---- C24, C25: the memo of get_areas_within_radius ----

\* the small-area collection in effect for a call: the small_areas argument
\* or, without one, what load_small_areas() returns
CollectionInEffect(small_areas_arg) ==
    IF small_areas_arg # NoFrame THEN small_areas_arg
    ELSE load_small_areas(loader_small_areas, small_areas_json, FALSE).returned

\* the call of a step returns what a fresh computation on the collection in
\* effect returns
FreshStep ==
    loader_call'.op = "get_areas_within_radius" /\ GetAreasWithinRadius =>
        LET args == loader_call'.args
        IN  areas_returned'.kind \in {"cached", "computed"} =>
                areas_returned'.areas =
                    intersecting_areas(CollectionInEffect(args[3]),
                                       args[1], args[2])

\* C24: a result returned by get_areas_within_radius(point, radius,
\* small_areas) equals what a fresh computation on the small-area collection
\* in effect for that call returns; the memo never yields a result computed
\* from a different collection (another small_areas argument, or data
\* replaced by load_small_areas(force=True)).
C24_ResultIsFresh == [][FreshStep]_vars

\* the call of a step is made without a small_areas argument while the
\* small areas load correctly and some of them lie within the radius
LoadsCorrectly(args) ==
    /\ args[3] = NoFrame
    /\ CollectionInEffect(NoFrame).stage = "set_index"
    /\ intersecting_areas(CollectionInEffect(NoFrame), args[1], args[2]).rows
           # <<>>

NoFallbackStep ==
    loader_call'.op = "get_areas_within_radius" /\ GetAreasWithinRadius =>
        LET args == loader_call'.args
        IN  args[1] # NoPoint /\ LoadsCorrectly(args) =>
                areas_returned'.areas.stage # "empty"

\* C25: an error outcome of get_areas_within_radius is never memoized: a
\* call made once the small areas load correctly returns the intersecting
\* areas, not the empty fallback of an earlier call for the same key made
\* while loading failed.
C25_ErrorOutcomeNotMemoized == [][NoFallbackStep]_vars


\* ---- C26: the cached datasets and the error fallback ----

\* what a load_* call may do to its field: `before` and `after` are the
\* field around the call, `complete` the stages of a dataset loaded in full
LoadContract(before, after, call, complete) ==
    /\ call.returned = EmptyFrame => after = NoFrame
    /\ call.returned.stage \in complete \cup {"empty"}
    /\ ~call.args[1] /\ before.stage \in complete =>
           call.returned = before /\ after = before

LoadStep ==
    /\ loader_call'.op = "load_population_data" /\ LoadPopulationData =>
           LoadContract(loader_population_data, loader_population_data',
                        loader_call', {"astype", "zfill"})
    /\ loader_call'.op = "load_small_areas" /\ LoadSmallAreas =>
           LoadContract(loader_small_areas, loader_small_areas',
                        loader_call', {"set_index"})
    /\ loader_call'.op = "load_schools_data" /\ LoadSchoolsData =>
           LoadContract(loader_schools_data, loader_schools_data',
                        loader_call', {"geodataframe"})

\* C26: whenever load_population_data, load_small_areas or load_schools_data
\* returns its empty error fallback the cache field is None afterwards, so
\* that the next non-forced call loads again and never returns a partially
\* processed dataset; once a load has succeeded, every later non-forced
\* call returns the cached dataset and leaves it as it is.
C26_FallbackLeavesFieldNone == [][LoadStep]_vars

\* ---- C27: update_map and the cached population table ----

AreaIdLists == {{Id42}, {Id0042}, {Id7}, {Id42, Id7}}

\* what the statistics calls see of the population table
SeenUnchanged ==
    \A area_ids \in AreaIdLists :
        /\ get_total_population(loader_population_data', population_csv',
                                area_ids)
           = get_total_population(loader_population_data, population_csv,
                                  area_ids)
        /\ get_age_distribution(loader_population_data', population_csv',
                                area_ids)
           = get_age_distribution(loader_population_data, population_csv,
                                  area_ids)

\* C27: update_map never changes the DataLoader's cached population table:
\* whatever layers and age group it is called with, get_total_population
\* and get_age_distribution see the same zone keys and counts after the
\* call as before.
C27_UpdateMapKeepsPopulation ==
    [][loader_call'.op = "update_map" /\ UpdateMap => SeenUnchanged]_vars


\* ---- C29: clear_caches ----

AllReset ==
    /\ loader_population_data = NoFrame
    /\ loader_small_areas = NoFrame
    /\ loader_schools_data = NoFrame
    /\ affected_areas_cache = <<>>
    /\ cached_areas = <<>>

\* what a load from the file returns, nothing being cached
FromSource(load(_, _, _), file) == load(NoFrame, file, TRUE).returned

\* a call that follows clear_caches returns what the files give
AfterClearStep ==
    loader_call.op = "clear_caches" =>
        /\ loader_call'.op = "load_population_data" /\ LoadPopulationData =>
               loader_call'.returned
                   = FromSource(load_population_data, population_csv)
        /\ loader_call'.op = "load_small_areas" /\ LoadSmallAreas =>
               loader_call'.returned
                   = FromSource(load_small_areas, small_areas_json)
        /\ loader_call'.op = "load_schools_data" /\ LoadSchoolsData =>
               loader_call'.returned
                   = FromSource(load_schools_data, schools_csv)
        /\ loader_call'.op = "get_areas_within_radius" /\ GetAreasWithinRadius =>
               /\ areas_returned'.kind = "computed"
               /\ areas_returned'.areas
                      = intersecting_areas(
                            FromSource(load_small_areas, small_areas_json),
                            loader_call'.args[1], loader_call'.args[2])

ClearStep ==
    loader_call'.op = "clear_caches" /\ ClearCaches => AllReset'

\* C29: clear_caches resets all four caches (population, small areas,
\* schools, the memo of affected areas): after it the memo is empty, and the
\* next load_* or get_areas_within_radius call computes its result from the
\* files instead of returning a value stored before the clear.
C29_ClearCachesResetsAll == [][ClearStep /\ AfterClearStep]_vars

\* clear_caches has emptied four caches that all held something
C29_Witness ==
    /\ loader_call.op = "clear_caches"
    /\ loader_call.held = {"population", "small_areas", "schools",
                           "affected_areas"}
    /\ AllReset


\* ---- C21: two station queries at once ----

\* what a query for the station at `point` returns when it runs alone
QueryAlone(point) ==
    intersecting_areas(
        load_small_areas(NoFrame, small_areas_json, TRUE).returned,
        point, DefaultRadius)

Answered(t) == click_threads[t].pc \in {"return", "done"}

\* C21: when a second station query starts before the first has completed,
\* each of the two computes the result for its own (point, radius) as a
\* function of its inputs alone: the DataLoader state the other one touches
\* never makes its result a wrong one or the error fallback; and what is
\* displayed is the result of the query that finished last.
C21_ConcurrentQueriesIndependent ==
    pc = "clicks" =>
        /\ \A t \in Threads :
               Answered(t) =>
                   click_threads[t].returned
                       = QueryAlone(click_threads[t].point)
        /\ displayed.order # <<>> =>
               displayed.areas =
                   click_threads[displayed.order[Len(displayed.order)]].returned

=============================================================================
